---- MODULE Spec2Model ----
(***************************************************************************)
(* Hatrac: the metadata directory (hatrac/model/directory/pgsql.py), the   *)
(* filesystem bulk backend (hatrac/model/storage/filesystem.py) and the    *)
(* metadata map (hatrac/core.py), as a state machine.                      *)
(*                                                                         *)
(* A directory method wrapped by db_wrap is one REPEATABLE READ            *)
(* transaction and is one action.  A method that the code itself splits    *)
(* into several transactions and backend calls (create_version_from_file,  *)
(* upload_chunk_from_file, the post-commit thunks of delete_version,       *)
(* delete_name and upload_cancel) is one action per step, with the         *)
(* request's position kept in a variable.  upload_finalize is split into   *)
(* the part that reads its snapshot and calls the backend, and the part    *)
(* whose writes are checked against concurrently committed rows.           *)
(***************************************************************************)
EXTENDS Integers, Sequences, FiniteSets, Bags, TLC

(***************************************************************************)
(* Bounds of the model.                                                    *)
(***************************************************************************)
MaxVersions == 2
MaxUploads == 1
MaxAclOps == 2
MaxFinalizers == 2
MaxThunks == 1
MaxPosition == 1
MaxMetaOps == 3
MaxCreates == 2
MaxChunkPosition == 3
MaxContent == 4
MaxBufsize == 3
MaxOverlayTag == 3

(***************************************************************************)
(* Values.                                                                 *)
(***************************************************************************)
None == "None"
Star == "*"
NoTag == 0
Hole == 0

Min(a, b) == IF a < b THEN a ELSE b
Max(a, b) == IF a > b THEN a ELSE b
Range(s) == {s[i] : i \in DOMAIN s}

\* a client context: the client id (None when anonymous) and attribute ids
Root == [client |-> "root", attributes |-> {}]
Foo == [client |-> "foo", attributes |-> {"grp"}]
Bar == [client |-> "bar", attributes |-> {}]
Anon == [client |-> None, attributes |-> {}]

\* paths as their non-empty components: "/" is <<>>
RootPath == <<>>
NsPath == <<"a">>
ObjPath == <<"a", "o">>

NameAclCols == {"owner", "create", "update", "read",
                "subtree-owner", "subtree-create", "subtree-update", "subtree-read"}

Namespace_acl_names == {"owner", "create", "subtree-owner", "subtree-create",
                        "subtree-read", "subtree-update"}
Namespace_ancestor_acl_names == {"ancestor_owner", "ancestor_create"}
Object_acl_names == {"owner", "update", "read", "subtree-owner", "subtree-read"}
Object_ancestor_acl_names == {"ancestor_owner", "ancestor_update"}
Version_acl_names == {"owner", "read"}
Version_ancestor_acl_names == {"ancestor_owner", "ancestor_read", "subtree-owner", "subtree-read"}
Upload_acl_names == {"owner"}
Upload_ancestor_acl_names == {"ancestor_owner"}

VARIABLES
  name,      \* table hatrac.name: sequence of rows, id = index
  version,   \* table hatrac.version: sequence of rows, id = index
  upload,    \* table hatrac.upload: sequence of rows, id = index; a DELETEd row has present = FALSE
  files,     \* filesystem backend: <<path, tag>> -> bytes of the file rootdir/path:tag;
             \* under the overlay backend, the list self.backends of sub-backends
  puts,      \* single PUT requests in flight: position after create_version
  creates,   \* create_name transactions that have read their snapshot
  handles,   \* HatracUpload objects held by requests (rows as loaded)
  fins,      \* upload_finalize transactions that have read their snapshot
  thunks,    \* post-commit backend calls not yet made
  done,      \* history: ids of the versions whose complete_version committed
  sent,      \* history, per upload row: position -> the chunk last accepted there
  issued,    \* history: the tags the backend has returned (create_from_file, finalize_upload)
  nops,      \* number of ACL and metadata operations so far
  last       \* the last operation and its outcome

vars == <<name, version, upload, files, puts, creates, handles, fins, thunks,
          done, sent, issued, nops, last>>

(***************************************************************************)
(* hatrac.name rows and the ACLs loaded with them.                         *)
(***************************************************************************)
EmptyNameAcl == [c \in NameAclCols |-> {}]

SubtreeCol(access) ==
  CASE access = "owner" -> "subtree-owner"
    [] access = "create" -> "subtree-create"
    [] access = "update" -> "subtree-update"
    [] access = "read" -> "subtree-read"

\* an inherited ACL that also takes the subtree ACL of the row itself
ancestor_acl_in_self(tbl, nid, access) ==
  UNION {tbl[a].acl[SubtreeCol(access)] : a \in Range(tbl[nid].ancestors) \cup {nid}}

\* ancestor_acl_sql over the rows tbl of hatrac.name:
\* array_agg(DISTINCT unnest(a."subtree-X")) over a.id = ANY(n.ancestors)
ancestor_acl_in(tbl, nid, access) ==
  UNION {tbl[a].acl[SubtreeCol(access)] : a \in Range(tbl[nid].ancestors)}

ancestor_acl_sql(nid, access) == ancestor_acl_in(name, nid, access)

\* hatrac_name_lookup over the rows tbl:
\* WHERE n.name = $1 AND (NOT n.is_deleted OR NOT $2); 0 is NotFound
name_lookup_in(tbl, path, check_deleted) ==
  LET hits == {i \in DOMAIN tbl :
                 tbl[i].name = path /\ (~tbl[i].is_deleted \/ ~check_deleted)}
  IN IF hits = {} THEN 0 ELSE CHOOSE i \in hits : TRUE

_name_lookup(path, check_deleted) == name_lookup_in(name, path, check_deleted)

\* HatracName._acl_load for a row of hatrac_name_lookup, by subtype
NameResIn(tbl, nid) ==
  LET row == tbl[nid]
      direct == IF row.subtype = 1 THEN Object_acl_names ELSE Namespace_acl_names
      inherited == IF row.subtype = 1 THEN Object_ancestor_acl_names
                   ELSE Namespace_ancestor_acl_names
  IN [kind |-> IF row.subtype = 1 THEN "object" ELSE "namespace",
      id |-> nid,
      acls |-> [an \in direct \cup inherited |->
                  CASE an = "ancestor_owner" -> ancestor_acl_in(tbl, nid, "owner")
                    [] an = "ancestor_create" -> ancestor_acl_in(tbl, nid, "create")
                    [] an = "ancestor_update" -> ancestor_acl_in(tbl, nid, "update")
                    [] OTHER -> row.acl[an]]]

NameRes(nid) == NameResIn(name, nid)

\* HatracObjectVersion for a row of hatrac_version_lookup: v.*, n.name, n.pid,
\* n.ancestors, ancestor_owner, ancestor_read; the object's subtree-* columns
\* are not selected and load as empty
VersionRes(vid) ==
  LET row == version[vid]
  IN [kind |-> "version",
      id |-> vid,
      acls |-> [an \in Version_acl_names \cup Version_ancestor_acl_names |->
                  CASE an = "owner" -> row.owner
                    [] an = "read" -> row.read
                    [] an = "ancestor_owner" -> ancestor_acl_sql(row.nameid, "owner")
                    [] an = "ancestor_read" -> ancestor_acl_sql(row.nameid, "read")
                    [] OTHER -> {}]]

\* HatracObjectVersion for a row of hatrac_object_enumerate_versions or
\* hatrac_namepattern_enumerate_versions, which also select the object's
\* subtree-owner and subtree-read
EnumeratedVersionRes(vid) ==
  LET row == version[vid]
  IN [kind |-> "version",
      id |-> vid,
      acls |-> [an \in Version_acl_names \cup Version_ancestor_acl_names |->
                  CASE an = "owner" -> row.owner
                    [] an = "read" -> row.read
                    [] an = "ancestor_owner" -> ancestor_acl_sql(row.nameid, "owner")
                    [] an = "ancestor_read" -> ancestor_acl_sql(row.nameid, "read")
                    [] OTHER -> name[row.nameid].acl[an]]]

\* HatracUpload for a row of hatrac_upload_lookup
UploadRes(uid) ==
  LET row == upload[uid]
  IN [kind |-> "upload",
      id |-> uid,
      acls |-> [an \in Upload_acl_names \cup Upload_ancestor_acl_names |->
                  CASE an = "owner" -> row.owner
                    [] OTHER -> ancestor_acl_sql(row.nameid, "owner")]]

\* an enforce_acl that raises for no caller
enforce_acl_open(res, accesses, ctx) == "ok"

\* HatracName.enforce_acl: "ok", "Forbidden" or "Unauthenticated"
enforce_acl(res, accesses, ctx) ==
  LET acl == UNION {res.acls[a] : a \in accesses \cap DOMAIN res.acls}
  IN IF Star \in acl \/ ctx.client \in acl \/ acl \cap ctx.attributes # {}
     THEN "ok"
     ELSE IF ctx.client # None THEN "Forbidden" ELSE "Unauthenticated"

(***************************************************************************)
(* Metadata (hatrac/core.py).  A digest is kept as the term MD5(bytes): an *)
(* ideal hash, equal exactly for equal content.  The JSON column holds the *)
(* write-once keys hex-encoded.                                            *)
(***************************************************************************)
_all_keys == {"content-type", "content-disposition", "content-md5", "content-sha256"}
_write_once_keys == {"content-md5", "content-sha256"}

MD5(bytes) == <<"md5", bytes>>
hexlify(v) == [hex |-> v]
unhexlify(h) == h.hex

NoMeta == <<>>

to_sql(md) == [k \in DOMAIN md |-> IF k \in _write_once_keys THEN hexlify(md[k]) ELSE md[k]]
from_sql(col) == [k \in DOMAIN col |-> IF k \in _write_once_keys THEN unhexlify(col[k]) ELSE col[k]]

(***************************************************************************)
(* Filesystem backend (hatrac/model/storage/filesystem.py).                *)
(***************************************************************************)
\* f.seek(off); f.write(buf) on a file opened without truncation
WriteAt(f, off, buf) ==
  [i \in 1..Max(Len(f), off + Len(buf)) |->
     IF i > off /\ i <= off + Len(buf) THEN buf[i - off]
     ELSE IF i <= Len(f) THEN f[i] ELSE Hole]

\* the bytes the read loop of upload_chunk_from_file takes from the input
Received(input, nbytes) == SubSeq(input, 1, Min(Len(input), nbytes))

\* the outcome of the read loop and of the MD5 test that follows it
storage_chunk_outcome(input, nbytes, metadata) ==
  IF Len(input) < nbytes THEN "BadRequest"
  ELSE IF "content-md5" \in DOMAIN metadata
          /\ metadata["content-md5"] # MD5(Received(input, nbytes))
       THEN "BadRequest"
       ELSE "ok"

\* finalize_upload: re-hash the stored file when the job carries content-md5
storage_finalize_outcome(fs, key, metadata) ==
  IF "content-md5" \notin DOMAIN metadata THEN "ok"
  ELSE IF key \notin DOMAIN fs THEN "Error"
  ELSE IF metadata["content-md5"] # MD5(fs[key]) THEN "Conflict"
  ELSE "ok"

\* an optional value (a slice, its start, its stop): Python's None is the
\* empty tuple Unset, a value x is <<x>>
Unset == <<>>
coalesce(x, default) == IF x = Unset THEN default ELSE x[1]

\* f.read(n) at offset rpos of the file: up to n bytes, all of the rest when
\* n is negative
FileRead(content, rpos, n) ==
  IF n < 0 THEN SubSeq(content, rpos + 1, Len(content))
  ELSE SubSeq(content, rpos + 1, Min(Len(content), rpos + n))

\* the body generator of get_content_range run to its end, from the read
\* position rpos with the bytes hashed and the buffers yielded so far; a
\* buffer is yielded after the tests of its iteration
RECURSIVE helper(_, _, _, _, _, _, _)
helper(content, rpos, limit, bufsize, metadata, hashed, yielded) ==
  LET buf == FileRead(content, rpos, Min(limit - rpos, bufsize))
      rpos2 == rpos + Len(buf)
      hashed2 == hashed \o buf
      eof == rpos2 >= limit - 1
  IN IF ~eof /\ Len(buf) = 0
     THEN [out |-> "IOError", buffers |-> yielded]
     ELSE IF eof /\ "content-md5" \in DOMAIN metadata
                /\ metadata["content-md5"] # MD5(hashed2)
     THEN [out |-> "IOError", buffers |-> yielded]
     ELSE IF eof
     THEN [out |-> "ok", buffers |-> Append(yielded, buf)]
     ELSE helper(content, rpos2, limit, bufsize, metadata, hashed2, Append(yielded, buf))

\* get_content_range of the file fs[key]: (nbytes, metadata, data_iterator),
\* the iterator consumed to its end; get_slice is None (Unset) or <<start, stop>>
get_content_range(fs, key, metadata, get_slice, bufsize) ==
  IF key \notin DOMAIN fs
  THEN [out |-> "Error", length |-> 0, metadata |-> metadata, buffers |-> <<>>]
  ELSE LET nbytes == Len(fs[key])
           pos == IF get_slice # Unset THEN coalesce(get_slice[1], 0) ELSE 0
           limit == IF get_slice # Unset THEN coalesce(get_slice[2], nbytes) ELSE nbytes
           md == IF pos # 0 \/ limit # nbytes
                 THEN [k \in DOMAIN metadata \cap {"content-type"} |-> metadata[k]]
                 ELSE metadata
           body == helper(fs[key], pos, limit, bufsize, md, <<>>, <<>>)
       IN [out |-> body.out, length |-> limit - pos, metadata |-> md,
           buffers |-> body.buffers]

\* get_content: the whole entity
get_content(fs, key, metadata, bufsize) == get_content_range(fs, key, metadata, Unset, bufsize)

(***************************************************************************)
(* Queries of the directory.                                               *)
(***************************************************************************)
\* a version list that does not filter on is_deleted
_version_list_all(nameid) ==
  {v \in DOMAIN version : version[v].nameid = nameid}

\* hatrac_version_list: WHERE v.nameid = $1 AND NOT v.is_deleted ORDER BY v.id DESC
_version_list(nameid) ==
  {v \in DOMAIN version : version[v].nameid = nameid /\ ~version[v].is_deleted}

\* hatrac_version_lookup: WHERE v.nameid = $1 AND v.version = $2 (never true of a
\* NULL version); 0 is NotFound
_version_lookup(nameid, tag, allow_deleted) ==
  LET hits == {v \in DOMAIN version :
                 /\ version[v].nameid = nameid
                 /\ version[v].version # NoTag
                 /\ version[v].version = tag}
  IN IF hits = {} THEN 0
     ELSE LET v == CHOOSE v \in hits : TRUE
          IN IF version[v].is_deleted /\ ~allow_deleted THEN 0 ELSE v

\* hatrac_upload_lookup: WHERE u.nameid = $1 AND u.job = $2; 0 is NotFound
_upload_lookup(nameid, job) ==
  LET hits == {u \in DOMAIN upload :
                 upload[u].present /\ upload[u].nameid = nameid /\ upload[u].job = job}
  IN IF hits = {} THEN 0 ELSE CHOOSE u \in hits : TRUE

\* a current version taken from the other end of the list
get_current_version_oldest(path) ==
  LET oid == _name_lookup(path, TRUE)
  IN IF oid = 0 THEN [out |-> "NotFound", id |-> 0]
     ELSE LET results == {v \in DOMAIN version : version[v].nameid = oid /\ ~version[v].is_deleted}
          IN IF results # {}
             THEN [out |-> "ok", id |-> CHOOSE v \in results : \A w \in results : v <= w]
             ELSE [out |-> "Conflict", id |-> 0]

\* get_current_version after its reload of the object: the version id, or an error
get_current_version(path) ==
  LET oid == _name_lookup(path, TRUE)
  IN IF oid = 0 THEN [out |-> "NotFound", id |-> 0]
     ELSE LET results == _version_list(oid)
          IN IF results # {}
             THEN [out |-> "ok", id |-> CHOOSE v \in results : \A w \in results : w <= v]
             ELSE [out |-> "Conflict", id |-> 0]

\* object_enumerate_versions after its reload of the object
object_enumerate_versions(path) ==
  LET oid == _name_lookup(path, TRUE)
  IN IF oid = 0 THEN {} ELSE _version_list(oid)

\* a version_resolve that passes allow_deleted = True to the lookup
version_resolve_deleted(oid, tag) == _version_lookup(oid, tag, TRUE)

\* version_resolve(object, tag) with raise_notfound = True, for an object handle
version_resolve(oid, tag) == _version_lookup(oid, tag, FALSE)

(***************************************************************************)
(* Row constructors and mutators.                                          *)
(***************************************************************************)
\* _create_name: INSERT (name, pid, ancestors, subtype, is_deleted = False)
_create_name(path, pid, ancestors, is_object) ==
  [name |-> path, pid |-> pid, ancestors |-> ancestors,
   subtype |-> IF is_object THEN 1 ELSE 0, is_deleted |-> FALSE, acl |-> EmptyNameAcl]

\* a version row inserted with is_deleted = False
_create_version_live(nameid, nbytes, metadata) ==
  [nameid |-> nameid, version |-> NoTag, nbytes |-> nbytes, metadata |-> to_sql(metadata),
   is_deleted |-> FALSE, owner |-> {}, read |-> {}]

\* _create_version: INSERT (nameid, nbytes, metadata, is_deleted = True); version is NULL
_create_version(nameid, nbytes, metadata) ==
  [nameid |-> nameid, version |-> NoTag, nbytes |-> nbytes, metadata |-> to_sql(metadata),
   is_deleted |-> TRUE, owner |-> {}, read |-> {}]

\* _create_upload: INSERT (nameid, job, nbytes, chunksize, metadata)
_create_upload(nameid, job, chunksize, nbytes, metadata) ==
  [nameid |-> nameid, job |-> job, nbytes |-> nbytes, chunksize |-> chunksize,
   metadata |-> to_sql(metadata), owner |-> {}, present |-> TRUE]

\* an ACL update that stores the role in place of the array
_set_resource_acl_role_only(acl, role) == {role}

\* an ACL update that leaves the array as it is
_set_resource_acl_role_skipped(acl, role) == acl

\* _set_resource_acl_role: array_append unless the role is already a member
_set_resource_acl_role(acl, role) == acl \cup {role}

\* a drop that calls array_append in place of array_remove
_drop_resource_acl_role_append(acl, role) == acl \cup {role}

\* _drop_resource_acl_role: array_remove
_drop_resource_acl_role(acl, role) == acl \ {role}

\* _set_resource_acl: replace the array
_set_resource_acl(acl, roles) == roles

\* hatrac_complete_version: UPDATE version SET is_deleted = $3, version = $2 WHERE id = $1
_complete_version(row, tag) == [row EXCEPT !.version = tag, !.is_deleted = FALSE]

\* a soft delete that also clears the tag, as the table's CHECK would allow
_delete_version_untag(row) == [row EXCEPT !.is_deleted = TRUE, !.version = NoTag]

\* hatrac_delete_version in a transaction that does not commit: the row is as
\* it was
_delete_version_rolled_back(row) == row

\* hatrac_delete_version: UPDATE version SET is_deleted = True WHERE id = $1
_delete_version(row) == [row EXCEPT !.is_deleted = TRUE]

\* hatrac_delete_name: UPDATE name SET is_deleted = True WHERE id = $1
_delete_name(row) == [row EXCEPT !.is_deleted = TRUE]

\* an upload_finalize or upload_cancel that leaves the upload row in place
_delete_upload_kept(row) == row

\* hatrac_delete_chunks, hatrac_delete_upload: DELETE FROM upload WHERE id = $1
\* (the filesystem backend has track_chunks = False: there are no chunk rows)
_delete_upload(row) == [row EXCEPT !.present = FALSE]

\* UNIQUE(nameid, version): would the row break it with this tag?
UniqueViolation(vid, tag) ==
  \E w \in DOMAIN version :
    w # vid /\ version[w].nameid = version[vid].nameid /\ version[w].version = tag

Say(op, out, id) == last' = [op |-> op, out |-> out, id |-> id]

Visible(v) == version[v].version # NoTag /\ ~version[v].is_deleted

FileKey(nameid, tag) == <<name[nameid].name, tag>>

(***************************************************************************)
(* Single PUT: create_version_from_file.                                   *)
(***************************************************************************)
\* a backend whose draws all yield the same tag
random_tag_fixed(draw) == 1

\* the version tag create_from_file draws: 128 random bits in base32, taken as
\* a value no other draw yields; a draw is named by the request that makes it
\* (the row of a PUT, the row of an upload job after those)
random_tag(draw) == draw

AllTags == {random_tag(d) : d \in 1..(MaxVersions + MaxUploads)}

create_version_acl == {"owner", "update", "ancestor_owner", "ancestor_update"}

\* create_version: reload the object, enforce, insert the invisible row, make
\* the caller its owner
PutCreate(ctx, nbytes, metadata) ==
  /\ Len(version) < MaxVersions
  /\ LET oid == _name_lookup(ObjPath, TRUE)
         auth == IF oid = 0 THEN "NotFound"
                 ELSE enforce_acl(NameRes(oid), create_version_acl, ctx)
         vid == Len(version) + 1
         row == [_create_version(oid, nbytes, metadata) EXCEPT
                   !.owner = _set_resource_acl_role(@, ctx.client)]
     IN IF auth # "ok"
        THEN /\ Say("create_version", auth, 0)
             /\ UNCHANGED <<version, puts>>
        ELSE /\ version' = Append(version, row)
             /\ puts' = puts \cup {[vid |-> vid, pc |-> "created", tag |-> NoTag]}
             /\ Say("create_version", "ok", vid)
  /\ UNCHANGED <<creates, name, upload, files, handles, fins, thunks, done, issued, nops, sent>>

\* storage.create_from_file: a fresh random tag, the file opened 'wb', the body
\* streamed in; a short body or an MD5 mismatch ends the request here
PutStore(p, input) ==
  /\ p \in puts /\ p.pc = "created"
  /\ LET row == version[p.vid]
         tag == random_tag(p.vid)
         out == storage_chunk_outcome(input, row.nbytes, from_sql(row.metadata))
     IN /\ files' = (FileKey(row.nameid, tag) :> Received(input, row.nbytes)) @@ files
        /\ IF out = "ok"
           THEN /\ puts' = (puts \ {p}) \cup {[p EXCEPT !.pc = "stored", !.tag = tag]}
                /\ issued' = issued \cup {tag}
           ELSE /\ puts' = puts \ {p}
                /\ UNCHANGED issued
        /\ Say("create_from_file", out, p.vid)
  /\ UNCHANGED <<creates, name, version, upload, handles, fins, thunks, done, nops, sent>>

\* pc.perform(_complete_version(resource, version)): no reload, no ACL check
PutComplete(p) ==
  /\ p \in puts /\ p.pc = "stored"
  /\ IF UniqueViolation(p.vid, p.tag)
     THEN /\ puts' = puts \ {p}
          /\ Say("complete_version", "Error", p.vid)
          /\ UNCHANGED <<version, done>>
     ELSE /\ version' = [version EXCEPT ![p.vid] = _complete_version(@, p.tag)]
          /\ done' = done \cup {p.vid}
          /\ puts' = (puts \ {p}) \cup {[p EXCEPT !.pc = "completed"]}
          /\ Say("complete_version", "ok", p.vid)
  /\ UNCHANGED <<creates, name, upload, files, handles, fins, thunks, issued, nops, sent>>

\* the closing version_resolve(object, version) of create_version_from_file
PutResolve(p) ==
  /\ p \in puts /\ p.pc = "completed"
  /\ LET v == version_resolve(version[p.vid].nameid, p.tag)
     IN Say("create_version_from_file", IF v = 0 THEN "NotFound" ELSE "ok", v)
  /\ puts' = puts \ {p}
  /\ UNCHANGED <<creates, name, version, upload, files, handles, fins, thunks, done, issued, nops, sent>>

(***************************************************************************)
(* Chunked upload.                                                         *)
(***************************************************************************)
\* the HatracUpload object a request holds
Handle(uid) ==
  [id |-> uid, nameid |-> upload[uid].nameid, path |-> name[upload[uid].nameid].name,
   job |-> upload[uid].job, nbytes |-> upload[uid].nbytes,
   chunksize |-> upload[uid].chunksize, owner |-> upload[uid].owner]

\* create_version_upload_job: reload the object, enforce, storage.create_upload
\* (an empty file under a fresh random tag, which is the job id), insert the
\* upload row, make the caller its owner
CreateUpload(ctx, chunksize, nbytes, metadata) ==
  /\ Len(upload) < MaxUploads
  /\ LET oid == _name_lookup(ObjPath, TRUE)
         auth == IF oid = 0 THEN "NotFound"
                 ELSE enforce_acl(NameRes(oid), create_version_acl, ctx)
         job == random_tag(MaxVersions + Len(upload) + 1)
         uid == Len(upload) + 1
         row == [_create_upload(oid, job, chunksize, nbytes, metadata) EXCEPT
                   !.owner = _set_resource_acl_role(@, ctx.client)]
     IN IF auth # "ok"
        THEN /\ Say("create_version_upload_job", auth, 0)
             /\ UNCHANGED <<upload, files, handles, sent>>
        ELSE /\ files' = (FileKey(oid, job) :> <<>>) @@ files
             /\ upload' = Append(upload, row)
             /\ sent' = Append(sent, <<>>)
             /\ handles' = handles \cup
                  {[id |-> uid, nameid |-> oid, path |-> name[oid].name, job |-> job,
                    nbytes |-> nbytes, chunksize |-> chunksize, owner |-> row.owner]}
             /\ Say("create_version_upload_job", "ok", uid)
  /\ UNCHANGED <<creates, name, version, puts, fins, thunks, done, issued, nops>>

\* upload_resolve(object, job) after name_resolve: a request obtains the handle
UploadResolve(uid) ==
  /\ uid \in DOMAIN upload
  /\ LET oid == _name_lookup(name[upload[uid].nameid].name, TRUE)
         u == IF oid = 0 THEN 0 ELSE _upload_lookup(oid, upload[uid].job)
     IN IF u = 0
        THEN /\ Say("upload_resolve", "NotFound", 0)
             /\ UNCHANGED handles
        ELSE /\ handles' = handles \cup {Handle(u)}
             /\ Say("upload_resolve", "ok", u)
  /\ UNCHANGED <<creates, name, version, upload, files, puts, fins, thunks, done, issued, nops, sent>>

\* the tests of upload_chunk_from_file without the one on a chunk before the
\* last full one
chunk_shape_outcome_unsized(h, position, nbytes) ==
  LET remainder == h.nbytes % h.chunksize
  IN IF remainder # 0 /\ position * h.chunksize = h.nbytes /\ nbytes # remainder
       THEN "Conflict"
     ELSE IF position * h.chunksize > h.nbytes
             \/ (position * h.chunksize = h.nbytes /\ remainder = 0)
       THEN "Conflict"
     ELSE "ok"

\* the tests of upload_chunk_from_file without the one on the range
chunk_shape_outcome_unranged(h, position, nbytes) ==
  LET remainder == h.nbytes % h.chunksize
  IN IF (position + 1) * h.chunksize < h.nbytes /\ nbytes # h.chunksize
       THEN "Conflict"
     ELSE IF remainder # 0 /\ position * h.chunksize = h.nbytes /\ nbytes # remainder
       THEN "Conflict"
     ELSE "ok"

\* the size and range tests of upload_chunk_from_file, with nchunks the true
\* quotient upload.nbytes / upload.chunksize: a comparison of position with
\* nchunks is made on position * chunksize and nbytes
chunk_shape_outcome(h, position, nbytes) ==
  LET remainder == h.nbytes % h.chunksize
  IN IF (position + 1) * h.chunksize < h.nbytes /\ nbytes # h.chunksize
       THEN "Conflict"
     ELSE IF remainder # 0 /\ position * h.chunksize = h.nbytes /\ nbytes # remainder
       THEN "Conflict"
     ELSE IF position * h.chunksize > h.nbytes
             \/ (position * h.chunksize = h.nbytes /\ remainder = 0)
       THEN "Conflict"
     ELSE "ok"

\* upload_chunk_from_file: not a transaction; enforce on the handle as held,
\* test the shape, then the backend writes at position * chunksize into the
\* file name:job opened "r+b"
UploadChunk(h, ctx, position, input, nbytes, metadata) ==
  /\ h \in handles
  /\ LET hres == [acls |-> [an \in {"owner"} |-> h.owner]]
         auth == enforce_acl(hres, {"owner"}, ctx)
         shape == chunk_shape_outcome(h, position, nbytes)
         key == <<h.path, h.job>>
     IN IF auth # "ok"
        THEN Say("upload_chunk_from_file", auth, h.id) /\ UNCHANGED <<files, sent>>
        ELSE IF shape # "ok"
        THEN Say("upload_chunk_from_file", shape, h.id) /\ UNCHANGED <<files, sent>>
        ELSE IF key \notin DOMAIN files
        THEN Say("upload_chunk_from_file", "Error", h.id) /\ UNCHANGED <<files, sent>>
        ELSE LET out == storage_chunk_outcome(input, nbytes, metadata)
             IN /\ files' = [files EXCEPT
                               ![key] = WriteAt(@, position * h.chunksize, Received(input, nbytes))]
                /\ sent' = IF out = "ok"
                           THEN [sent EXCEPT ![h.id] = (position :> Received(input, nbytes)) @@ @]
                           ELSE sent
                /\ Say("upload_chunk_from_file", out, h.id)
  /\ UNCHANGED <<creates, name, version, upload, puts, handles, fins, thunks, done, issued, nops>>

\* the reload of an upload: object by name, then upload by (object id, job)
ReloadUpload(uid) ==
  LET oid == _name_lookup(name[upload[uid].nameid].name, TRUE)
  IN IF oid = 0 THEN 0 ELSE _upload_lookup(oid, upload[uid].job)

\* upload_finalize up to the backend's answer: reload, enforce owner,
\* storage.finalize_upload returns the job id as the version tag
FinalizeBegin(uid, ctx) ==
  /\ uid \in DOMAIN upload
  /\ LET u == ReloadUpload(uid)
         auth == IF u = 0 THEN "NotFound" ELSE enforce_acl(UploadRes(u), {"owner"}, ctx)
         fin == IF auth # "ok" THEN auth
                ELSE storage_finalize_outcome(files, FileKey(upload[u].nameid, upload[u].job),
                                              from_sql(upload[u].metadata))
         t == [uid |-> uid, client |-> ctx.client, tag |-> upload[u].job]
     IN IF fin # "ok"
        THEN /\ Say("upload_finalize", fin, uid)
             /\ UNCHANGED <<fins, issued>>
        ELSE /\ BagCardinality(fins) < MaxFinalizers
             /\ fins' = fins (+) SetToBag({t})
             /\ issued' = issued \cup {upload[u].job}
             /\ Say("finalize_upload", "ok", uid)
  /\ UNCHANGED <<creates, name, version, upload, files, puts, handles, thunks, done, nops, sent>>

\* upload_finalize's writes: _create_version, owner, _complete_version,
\* _delete_upload, commit.  The DELETE of an upload row that a concurrent
\* transaction has deleted, and a tag that a committed row of the object
\* already carries, abort the transaction
FinalizeCommit(t) ==
  /\ BagIn(t, fins)
  /\ fins' = fins (-) SetToBag({t})
  /\ IF ~upload[t.uid].present \/ (\E w \in DOMAIN version :
                                     version[w].nameid = upload[t.uid].nameid
                                     /\ version[w].version = t.tag)
     THEN /\ Say("upload_finalize", "Error", t.uid)
          /\ UNCHANGED <<version, upload, done>>
     ELSE /\ Len(version) < MaxVersions
          /\ LET u == upload[t.uid]
                 vid == Len(version) + 1
                 row == [_create_version(u.nameid, u.nbytes, from_sql(u.metadata)) EXCEPT
                           !.owner = _set_resource_acl_role(@, t.client)]
             IN /\ version' = Append(version, _complete_version(row, t.tag))
                /\ done' = done \cup {vid}
                /\ Say("upload_finalize", "ok", vid)
          /\ upload' = [upload EXCEPT ![t.uid] = _delete_upload(@)]
  /\ UNCHANGED <<creates, name, files, puts, handles, thunks, issued, nops, sent>>

\* upload_cancel: reload, enforce, _delete_upload; storage.cancel_upload after commit
UploadCancel(uid, ctx) ==
  /\ uid \in DOMAIN upload
  /\ LET u == ReloadUpload(uid)
         auth == IF u = 0 THEN "NotFound"
                 ELSE enforce_acl(UploadRes(u), {"owner", "ancestor_owner"}, ctx)
     IN IF auth # "ok"
        THEN Say("upload_cancel", auth, uid) /\ UNCHANGED <<upload, thunks>>
        ELSE /\ Cardinality(thunks) < MaxThunks
             /\ upload' = [upload EXCEPT ![u] = _delete_upload(@)]
             /\ thunks' = thunks \cup
                  {<<[call |-> "cancel_upload", path |-> name[upload[u].nameid].name,
                      tag |-> upload[u].job]>>}
             /\ Say("upload_cancel", "ok", uid)
  /\ UNCHANGED <<creates, name, version, files, puts, handles, fins, done, issued, nops, sent>>

(***************************************************************************)
(* Deletion and the post-commit backend calls.                             *)
(***************************************************************************)
IsPrefix(p, q) == Len(p) < Len(q) /\ SubSeq(q, 1, Len(p)) = p

\* delete_version through a version handle: the reload looks the tag up with
\* allow_deleted, so a soft-deleted row is found again
DeleteVersion(vid, ctx) ==
  /\ vid \in DOMAIN version /\ version[vid].version # NoTag
  /\ LET oid == _name_lookup(name[version[vid].nameid].name, TRUE)
         v == IF oid = 0 THEN 0 ELSE _version_lookup(oid, version[vid].version, TRUE)
         auth == IF v = 0 THEN "NotFound"
                 ELSE enforce_acl(VersionRes(v), {"owner", "ancestor_owner"}, ctx)
     IN IF auth # "ok"
        THEN Say("delete_version", auth, vid) /\ UNCHANGED <<version, thunks>>
        ELSE /\ Cardinality(thunks) < MaxThunks
             /\ version' = [version EXCEPT ![v] = _delete_version(@)]
             /\ thunks' = thunks \cup
                  {<<[call |-> "delete", path |-> name[oid].name, tag |-> version[v].version]>>}
             /\ Say("delete_version", "ok", vid)
  /\ UNCHANGED <<creates, name, upload, files, puts, handles, fins, done, issued, nops, sent>>

\* _namespace_enumerate_uploads: hatrac_object_uploads / hatrac_namespace_uploads
_namespace_enumerate_uploads(nid) ==
  {u \in DOMAIN upload :
     /\ upload[u].present
     /\ IF name[nid].subtype = 1 THEN upload[u].nameid = nid
        ELSE nid \in Range(name[upload[u].nameid].ancestors)}

\* sql_literal(v): the value between apostrophes
sql_literal(v) == [quoted |-> v]

\* the argument of hatrac_namepattern_enumerate_versions as the statement
\* receives it: sql_literal(sql_literal("^" + regexp_escape(name) + "/")), so
\* the SQL string is the pattern with its apostrophes
namepattern(path) == sql_literal(sql_literal([anchored_prefix |-> path]))

\* n.name ~ $1 for the text value of the SQL literal lit: a pattern that
\* starts with an apostrophe before its ^ matches no name
RegexMatch(lit, path) ==
  LET text == lit.quoted
  IN IF "quoted" \in DOMAIN text THEN FALSE
     ELSE IsPrefix(text.anchored_prefix, path)

\* _namespace_enumerate_versions: hatrac_object_enumerate_versions, or
\* hatrac_namepattern_enumerate_versions
_namespace_enumerate_versions(nid) ==
  {v \in DOMAIN version :
     /\ ~version[v].is_deleted
     /\ IF name[nid].subtype = 1 THEN version[v].nameid = nid
        ELSE RegexMatch(namepattern(name[nid].name), name[version[v].nameid].name)}

\* _namespace_enumerate_names: hatrac_namespace_subtree_acl
_namespace_enumerate_names(nid) ==
  {n \in DOMAIN name : nid \in Range(name[n].ancestors) /\ ~name[n].is_deleted}

\* a set of backend calls as a sequence, in some order
RECURSIVE SeqOf(_)
SeqOf(S) == IF S = {} THEN <<>>
            ELSE LET x == CHOOSE x \in S : TRUE IN <<x>> \o SeqOf(S \ {x})

\* delete_name without its test of resource.name against '/'
root_check_absent(path) == "ok"

\* delete_name: if resource.name == '/': raise core.Forbidden
root_check(path) == IF path = RootPath THEN "Forbidden" ELSE "ok"

\* delete_name: reload by name, enforce on the resource, then on every version
\* and name enumerated below it; soft-delete; hand the backend calls to cleanup
DeleteName(path, ctx) ==
  /\ LET nid == _name_lookup(path, TRUE)
         auth == IF nid = 0 THEN "NotFound"
                 ELSE enforce_acl(NameRes(nid), {"owner", "ancestor_owner"}, ctx)
         deleted_uploads == _namespace_enumerate_uploads(nid)
         deleted_versions == _namespace_enumerate_versions(nid)
         deleted_names == _namespace_enumerate_names(nid) \cup {nid}
         denied == {enforce_acl(EnumeratedVersionRes(v),
                                {"owner", "subtree-owner", "ancestor_owner"}, ctx) :
                      v \in deleted_versions}
                   \cup {enforce_acl(NameRes(n), {"owner", "ancestor_owner"}, ctx) :
                           n \in deleted_names \ {nid}}
         out == IF auth # "ok" THEN auth
                ELSE IF root_check(path) # "ok" THEN root_check(path)
                ELSE IF denied \ {"ok"} # {} THEN CHOOSE d \in denied : d # "ok"
                ELSE "ok"
     IN IF out # "ok"
        THEN Say("delete_name", out, nid) /\ UNCHANGED <<name, version, upload, thunks>>
        ELSE /\ Cardinality(thunks) < MaxThunks
             /\ upload' = [u \in DOMAIN upload |->
                             IF u \in deleted_uploads THEN _delete_upload(upload[u]) ELSE upload[u]]
             /\ version' = [v \in DOMAIN version |->
                              IF v \in deleted_versions THEN _delete_version(version[v])
                              ELSE version[v]]
             /\ name' = [n \in DOMAIN name |->
                           IF n \in deleted_names THEN _delete_name(name[n]) ELSE name[n]]
             /\ thunks' = thunks \cup
                  {SeqOf({[call |-> "cancel_upload", path |-> name[upload[u].nameid].name,
                           tag |-> upload[u].job] : u \in deleted_uploads})
                   \o SeqOf({[call |-> "delete", path |-> name[version[v].nameid].name,
                              tag |-> version[v].version] : v \in deleted_versions})
                   \o SeqOf({[call |-> "delete_namespace", path |-> name[n].name,
                              tag |-> NoTag] : n \in deleted_names})}
             /\ Say("delete_name", "ok", nid)
  /\ UNCHANGED <<creates, files, puts, handles, fins, done, issued, nops, sent>>

\* os.remove of rootdir/path:tag
Remove(fs, key) == [k \in DOMAIN fs \ {key} |-> fs[k]]

\* the next backend call of a post-commit thunk: cancel_upload and delete
\* remove the file and raise when it is missing, which ends the thunk;
\* delete_namespace removes empty directories only
ThunkStep(t) ==
  /\ t \in thunks /\ Len(t) > 0
  /\ LET c == Head(t)
         key == <<c.path, c.tag>>
     IN IF c.call = "delete_namespace"
        THEN /\ thunks' = (thunks \ {t}) \cup (IF Len(t) > 1 THEN {Tail(t)} ELSE {})
             /\ Say("delete_namespace", "ok", 0)
             /\ UNCHANGED files
        ELSE IF key \in DOMAIN files
        THEN /\ files' = Remove(files, key)
             /\ thunks' = (thunks \ {t}) \cup (IF Len(t) > 1 THEN {Tail(t)} ELSE {})
             /\ Say(c.call, "ok", c.tag)
        ELSE /\ thunks' = thunks \ {t}
             /\ Say(c.call, "Error", c.tag)
             /\ UNCHANGED files
  /\ UNCHANGED <<creates, name, version, upload, puts, handles, fins, done, issued, nops, sent>>

(***************************************************************************)
(* Readers.                                                                *)
(***************************************************************************)
read_acl == {"owner", "read", "ancestor_owner", "ancestor_read"}

\* get_version_content_range through a version handle: reload (the tag looked
\* up with allow_deleted), enforce, then NotFound for a deleted row, then the
\* backend read
get_version_content(vid, ctx) ==
  LET oid == _name_lookup(name[version[vid].nameid].name, TRUE)
      v == IF oid = 0 THEN 0 ELSE _version_lookup(oid, version[vid].version, TRUE)
      auth == IF v = 0 THEN "NotFound" ELSE enforce_acl(VersionRes(v), read_acl, ctx)
  IN IF auth # "ok" THEN auth
     ELSE IF version[v].is_deleted THEN "NotFound"
     ELSE IF FileKey(oid, version[v].version) \notin DOMAIN files THEN "Error"
     ELSE "ok"

\* GET of an object path: name_resolve, get_current_version, get_content
get_object(path, ctx) ==
  LET oid == _name_lookup(path, TRUE)
      cur == get_current_version(path)
  IN IF oid = 0 THEN "NotFound"
     ELSE IF cur.out # "ok" THEN cur.out
     ELSE get_version_content(cur.id, ctx)

GetCurrentVersion ==
  /\ LET cur == get_current_version(ObjPath) IN Say("get_current_version", cur.out, cur.id)
  /\ UNCHANGED <<creates, name, version, upload, files, puts, handles, fins, thunks,
                 done, issued, nops, sent>>

\* GET of /a/o:tag for any tag a client may present: name_resolve, version_resolve
VersionResolve(tag) ==
  /\ LET oid == _name_lookup(ObjPath, TRUE)
         v == IF oid = 0 THEN 0 ELSE version_resolve(oid, tag)
     IN Say("version_resolve", IF v = 0 THEN "NotFound" ELSE "ok", v)
  /\ UNCHANGED <<creates, name, version, upload, files, puts, handles, fins, thunks,
                 done, issued, nops, sent>>

GetObject(ctx) ==
  /\ Say("get_content", get_object(ObjPath, ctx), 0)
  /\ UNCHANGED <<creates, name, version, upload, files, puts, handles, fins, thunks,
                 done, issued, nops, sent>>

(***************************************************************************)
(* Names and ACLs: create_name and the ACL requests.                       *)
(***************************************************************************)
create_name_acl == {"owner", "create", "ancestor_owner", "ancestor_create"}

\* HatracName.construct for the row that INSERT ... RETURNING * gives back: the
\* row has no ancestor_* columns, so the inherited ACLs load as empty
CreatedRes(row, nid) ==
  LET direct == IF row.subtype = 1 THEN Object_acl_names ELSE Namespace_acl_names
      inherited == IF row.subtype = 1 THEN Object_ancestor_acl_names
                   ELSE Namespace_ancestor_acl_names
  IN [kind |-> IF row.subtype = 1 THEN "object" ELSE "namespace",
      id |-> nid,
      acls |-> [an \in direct \cup inherited |->
                  IF an \in direct THEN row.acl[an] ELSE {}]]

\* a create_name that makes the missing parents whether or not make_parents
\* is given
RECURSIVE create_name_always_parents(_, _, _, _, _)
create_name_always_parents(tbl, path, is_object, make_parents, ctx) ==
  IF path = RootPath THEN [out |-> "Error", tbl |-> tbl, id |-> 0, res |-> <<>>]
  ELSE IF path[Len(path)] \in {".", ".."}
  THEN [out |-> "BadRequest", tbl |-> tbl, id |-> 0, res |-> <<>>]
  ELSE IF name_lookup_in(tbl, path, FALSE) # 0
  THEN [out |-> "Conflict", tbl |-> tbl, id |-> 0, res |-> <<>>]
  ELSE
    LET parname == SubSeq(path, 1, Len(path) - 1)
        found == name_lookup_in(tbl, parname, TRUE)
        parent == IF found # 0
                  THEN [out |-> IF tbl[found].subtype = 1 THEN "Conflict" ELSE "ok",
                        tbl |-> tbl, id |-> found, res |-> NameResIn(tbl, found)]
                  ELSE create_name_always_parents(tbl, parname, FALSE, TRUE, ctx)
    IN IF parent.out # "ok" THEN [out |-> parent.out, tbl |-> tbl, id |-> 0, res |-> <<>>]
       ELSE
         LET auth == enforce_acl(parent.res, create_name_acl, ctx)
             row == _create_name(path, parent.id,
                                 Append(parent.tbl[parent.id].ancestors, parent.id), is_object)
             owned == [row EXCEPT !.acl["owner"] = _set_resource_acl_role(@, ctx.client)]
         IN IF auth # "ok" THEN [out |-> auth, tbl |-> tbl, id |-> 0, res |-> <<>>]
            ELSE [out |-> "ok", tbl |-> Append(parent.tbl, owned), id |-> Len(parent.tbl) + 1,
                  res |-> CreatedRes(owned, Len(parent.tbl) + 1)]

\* create_name within one transaction over the rows tbl: BadRequest for a
\* last component "." or ".."; Conflict for a name that exists, live or
\* deleted; the parent looked up, or made by the nested
\* call when make_parents; enforce on the parent as the request holds it;
\* insert; the caller's client id appended to the owner ACL.  The result is
\* the outcome, the rows, the id and the resource returned
RECURSIVE create_name(_, _, _, _, _)
create_name(tbl, path, is_object, make_parents, ctx) ==
  IF path = RootPath THEN [out |-> "Error", tbl |-> tbl, id |-> 0, res |-> <<>>]
  ELSE IF path[Len(path)] \in {".", ".."}
  THEN [out |-> "BadRequest", tbl |-> tbl, id |-> 0, res |-> <<>>]
  ELSE IF name_lookup_in(tbl, path, FALSE) # 0
  THEN [out |-> "Conflict", tbl |-> tbl, id |-> 0, res |-> <<>>]
  ELSE
    LET parname == SubSeq(path, 1, Len(path) - 1)
        found == name_lookup_in(tbl, parname, TRUE)
        parent == IF found # 0
                  THEN [out |-> IF tbl[found].subtype = 1 THEN "Conflict" ELSE "ok",
                        tbl |-> tbl, id |-> found, res |-> NameResIn(tbl, found)]
                  ELSE IF make_parents THEN create_name(tbl, parname, FALSE, TRUE, ctx)
                  ELSE [out |-> "NotFound", tbl |-> tbl, id |-> 0, res |-> <<>>]
    IN IF parent.out # "ok" THEN [out |-> parent.out, tbl |-> tbl, id |-> 0, res |-> <<>>]
       ELSE
         LET auth == enforce_acl(parent.res, create_name_acl, ctx)
             row == _create_name(path, parent.id,
                                 Append(parent.tbl[parent.id].ancestors, parent.id), is_object)
             owned == [row EXCEPT !.acl["owner"] = _set_resource_acl_role(@, ctx.client)]
         IN IF auth # "ok" THEN [out |-> auth, tbl |-> tbl, id |-> 0, res |-> <<>>]
            ELSE [out |-> "ok", tbl |-> Append(parent.tbl, owned), id |-> Len(parent.tbl) + 1,
                  res |-> CreatedRes(owned, Len(parent.tbl) + 1)]

CreateName(path, is_object, make_parents, ctx) ==
  /\ LET r == create_name(name, path, is_object, make_parents, ctx)
     IN /\ name' = r.tbl
        /\ Say("create_name", r.out, r.id)
  /\ UNCHANGED <<creates, version, upload, files, puts, handles, fins, thunks, done, issued, nops, sent>>

\* the resource an ACL or metadata request addresses: a name, a version or an
\* upload row
NameTarget(nid) == [kind |-> "name", id |-> nid]
VersionTarget(vid) == [kind |-> "version", id |-> vid]
UploadTarget(uid) == [kind |-> "upload", id |-> uid]

\* _reload of the target: the name by path; the version by its object and tag
\* (allow_deleted); the upload by its object and job; 0 is NotFound
Reload(t) ==
  IF t.kind = "name" THEN _name_lookup(name[t.id].name, TRUE)
  ELSE IF t.kind = "version"
  THEN LET oid == _name_lookup(name[version[t.id].nameid].name, TRUE)
       IN IF oid = 0 \/ version[t.id].version = NoTag THEN 0
          ELSE _version_lookup(oid, version[t.id].version, TRUE)
  ELSE LET oid == _name_lookup(name[upload[t.id].nameid].name, TRUE)
       IN IF oid = 0 THEN 0 ELSE _upload_lookup(oid, upload[t.id].job)

Res(t) ==
  IF t.kind = "name" THEN NameRes(t.id)
  ELSE IF t.kind = "version" THEN VersionRes(t.id) ELSE UploadRes(t.id)

\* resource._acl_names
acl_names(t) ==
  IF t.kind = "version" THEN Version_acl_names
  ELSE IF t.kind = "upload" THEN Upload_acl_names
  ELSE IF name[t.id].subtype = 1 THEN Object_acl_names ELSE Namespace_acl_names

\* the ACL column of the target's row
AclOf(t, access) ==
  IF t.kind = "name" THEN name[t.id].acl[access]
  ELSE IF t.kind = "upload" THEN upload[t.id].owner
  ELSE IF access = "owner" THEN version[t.id].owner ELSE version[t.id].read

\* UPDATE hatrac.<table> SET <access> = value WHERE id = ...
StoreAcl(t, access, value) ==
  IF t.kind = "name"
  THEN name' = [name EXCEPT ![t.id].acl[access] = value] /\ UNCHANGED <<version, upload>>
  ELSE IF t.kind = "upload"
  THEN upload' = [upload EXCEPT ![t.id].owner = value] /\ UNCHANGED <<name, version>>
  ELSE /\ version' = IF access = "owner" THEN [version EXCEPT ![t.id].owner = value]
                     ELSE [version EXCEPT ![t.id].read = value]
       /\ UNCHANGED <<name, upload>>

\* db_wrap(reload_pos=1, enforce_acl=(..., ['owner', 'ancestor_owner'])) of the
\* ACL and metadata methods
owner_gate(t, ctx) ==
  IF Reload(t) = 0 THEN "NotFound"
  ELSE enforce_acl(Res(t), {"owner", "ancestor_owner"}, ctx)

\* set_resource_acl_role
SetRole(t, access, role, ctx) ==
  /\ nops < MaxAclOps
  /\ LET auth == owner_gate(t, ctx)
         out == IF auth # "ok" THEN auth
                ELSE IF access \notin acl_names(t) THEN "BadRequest" ELSE "ok"
     IN IF out # "ok"
        THEN Say("set_resource_acl_role", out, 0) /\ UNCHANGED <<name, version, upload, nops>>
        ELSE /\ StoreAcl(t, access, _set_resource_acl_role(AclOf(t, access), role))
             /\ nops' = nops + 1
             /\ Say("set_resource_acl_role", "ok", 0)
  /\ UNCHANGED <<creates, files, puts, handles, fins, thunks, done, issued, sent>>

\* a drop that goes on to the UPDATE for a role the ACL does not hold
drop_resource_acl_role_unchecked(t, access, role, ctx) ==
  LET auth == owner_gate(t, ctx)
      out == IF auth # "ok" THEN auth
             ELSE IF access \notin acl_names(t) THEN "BadRequest" ELSE "ok"
  IN [out |-> out,
      acl |-> IF access \in acl_names(t)
              THEN _drop_resource_acl_role(AclOf(t, access), role) ELSE {}]

\* drop_resource_acl_role on the ACL access of t: the outcome, and the value
\* the ACL column has when the transaction ends.  NotFound for a role the
\* loaded ACL does not hold
drop_resource_acl_role(t, access, role, ctx) ==
  LET auth == owner_gate(t, ctx)
      out == IF auth # "ok" THEN auth
             ELSE IF access \notin DOMAIN Res(t).acls THEN "BadRequest"
             ELSE IF role \notin Res(t).acls[access] THEN "NotFound"
             ELSE IF access \notin acl_names(t) THEN "BadRequest" ELSE "ok"
  IN [out |-> out,
      acl |-> IF out = "ok" THEN _drop_resource_acl_role(AclOf(t, access), role)
              ELSE IF access \in acl_names(t) THEN AclOf(t, access) ELSE {}]

DropRole(t, access, role, ctx) ==
  /\ nops < MaxAclOps
  /\ LET r == drop_resource_acl_role(t, access, role, ctx)
     IN IF r.out # "ok"
        THEN Say("drop_resource_acl_role", r.out, 0) /\ UNCHANGED <<name, version, upload, nops>>
        ELSE /\ StoreAcl(t, access, r.acl)
             /\ nops' = nops + 1
             /\ Say("drop_resource_acl_role", "ok", 0)
  /\ UNCHANGED <<creates, files, puts, handles, fins, thunks, done, issued, sent>>

\* set_resource_acl, and clear_resource_acl as set_resource_acl with no roles
SetAcl(t, access, roles, ctx) ==
  /\ nops < MaxAclOps
  /\ LET auth == owner_gate(t, ctx)
         out == IF auth # "ok" THEN auth
                ELSE IF access \notin acl_names(t) THEN "BadRequest" ELSE "ok"
         op == IF roles = {} THEN "clear_resource_acl" ELSE "set_resource_acl"
     IN IF out # "ok"
        THEN Say(op, out, 0) /\ UNCHANGED <<name, version, upload, nops>>
        ELSE /\ StoreAcl(t, access, _set_resource_acl(AclOf(t, access), roles))
             /\ nops' = nops + 1
             /\ Say(op, "ok", 0)
  /\ UNCHANGED <<creates, files, puts, handles, fins, thunks, done, issued, sent>>

(***************************************************************************)
(* Metadata requests on a version.                                         *)
(***************************************************************************)
\* Metadata.update: a key is assigned when it is absent or holds another
\* value, and __setitem__ raises Conflict for a write-once key that is present
Metadata_update(md, updates) ==
  LET changed == {k \in DOMAIN updates : k \notin DOMAIN md \/ md[k] # updates[k]}
  IN IF changed \cap _write_once_keys \cap DOMAIN md # {}
     THEN [out |-> "Conflict", md |-> md]
     ELSE [out |-> "ok",
           md |-> [k \in DOMAIN md \cup changed |->
                     IF k \in changed THEN updates[k] ELSE md[k]]]

\* Metadata.pop: dict.pop, a KeyError for an absent key
Metadata_pop(md, k) ==
  IF k \notin DOMAIN md THEN [out |-> "Error", md |-> md]
  ELSE [out |-> "ok", md |-> [j \in DOMAIN md \ {k} |-> md[j]]]

\* update_resource_metadata: reload, enforce, Metadata.update, then
\* UPDATE ... SET metadata = to_sql()
UpdateMetadata(vid, updates, ctx) ==
  /\ nops < MaxMetaOps
  /\ LET auth == owner_gate(VersionTarget(vid), ctx)
         r == Metadata_update(from_sql(version[vid].metadata), updates)
         out == IF auth # "ok" THEN auth ELSE r.out
     IN IF out # "ok"
        THEN Say("update_resource_metadata", out, vid) /\ UNCHANGED <<version, nops>>
        ELSE /\ version' = [version EXCEPT ![vid].metadata = to_sql(r.md)]
             /\ nops' = nops + 1
             /\ Say("update_resource_metadata", "ok", vid)
  /\ UNCHANGED <<creates, name, upload, files, puts, handles, fins, thunks, done, issued, sent>>

\* pop_resource_metadata: reload, enforce, Metadata.pop, then the same UPDATE
PopMetadata(vid, fieldname, ctx) ==
  /\ nops < MaxMetaOps
  /\ LET auth == owner_gate(VersionTarget(vid), ctx)
         r == Metadata_pop(from_sql(version[vid].metadata), fieldname)
         out == IF auth # "ok" THEN auth ELSE r.out
     IN IF out # "ok"
        THEN Say("pop_resource_metadata", out, vid) /\ UNCHANGED <<version, nops>>
        ELSE /\ version' = [version EXCEPT ![vid].metadata = to_sql(r.md)]
             /\ nops' = nops + 1
             /\ Say("pop_resource_metadata", "ok", vid)
  /\ UNCHANGED <<creates, name, upload, files, puts, handles, fins, thunks, done, issued, sent>>

(***************************************************************************)
(* The version and upload lifecycle on the object /a/o.                    *)
(* Initially: deploy_db(["root"]), then create_name of /a and of the       *)
(* object /a/o by root.                                                    *)
(***************************************************************************)
OwnedBy(client) == [EmptyNameAcl EXCEPT !["owner"] = {client}]

InitNames ==
  <<[_create_name(RootPath, 0, <<>>, FALSE) EXCEPT !.acl = OwnedBy("root")],
    [_create_name(NsPath, 1, <<1>>, FALSE) EXCEPT !.acl = OwnedBy("root")],
    [_create_name(ObjPath, 2, <<1, 2>>, TRUE) EXCEPT !.acl = OwnedBy("root")]>>

Init ==
  /\ name = InitNames
  /\ version = <<>>
  /\ upload = <<>>
  /\ files = <<>>
  /\ puts = {}
  /\ creates = {}
  /\ handles = {}
  /\ fins = EmptyBag
  /\ thunks = {}
  /\ done = {}
  /\ issued = {}
  /\ sent = <<>>
  /\ nops = 0
  /\ last = [op |-> "init", out |-> "ok", id |-> 0]

Callers == {Root}

\* the declared sizes and the bodies of single PUTs: a body may fall short
PutSizes == {1}
PutBodies == {<<>>, <<1>>}

\* the (chunk size, total size) of upload jobs, and the chunk bodies
Shapes == {<<1, 1>>}
ChunkBodies == {<<2>>, <<1, 1>>}

\* request metadata of the lifecycle: none, or the digest of the body <<1>>
Metas == {NoMeta}

Next ==
  \/ \E ctx \in Callers, nbytes \in PutSizes, md \in Metas : PutCreate(ctx, nbytes, md)
  \/ \E p \in puts, input \in PutBodies : PutStore(p, input)
  \/ \E p \in puts : PutComplete(p)
  \/ \E p \in puts : PutResolve(p)
  \/ \E ctx \in Callers, shape \in Shapes, md \in Metas :
       CreateUpload(ctx, shape[1], shape[2], md)
  \/ \E uid \in DOMAIN upload : UploadResolve(uid)
  \/ \E h \in handles, ctx \in Callers, pos \in 0..MaxPosition, input \in ChunkBodies, md \in Metas :
       UploadChunk(h, ctx, pos, input, Len(input), md)
  \/ \E uid \in DOMAIN upload, ctx \in Callers : FinalizeBegin(uid, ctx)
  \/ \E t \in BagToSet(fins) : FinalizeCommit(t)
  \/ \E uid \in DOMAIN upload, ctx \in Callers : UploadCancel(uid, ctx)
  \/ \E vid \in DOMAIN version, ctx \in Callers : DeleteVersion(vid, ctx)
  \/ \E ctx \in Callers : DeleteName(ObjPath, ctx)
  \/ \E t \in thunks : ThunkStep(t)
  \/ GetCurrentVersion
  \/ \E tag \in AllTags : VersionResolve(tag)

Spec == Init /\ [][Next]_vars

(***************************************************************************)
(* ACL requests, name creation and reads, and metadata requests, on a      *)
(* store that holds one version of /a/o: the state after root's PUT of the *)
(* body <<1>> with its Content-MD5, and after root's create of an upload   *)
(* job on /a/o.                                                            *)
(***************************************************************************)
StoredVersion ==
  _complete_version(
    [_create_version(3, 1, [k \in {"content-md5"} |-> MD5(<<1>>)]) EXCEPT
       !.owner = _set_resource_acl_role(@, Root.client)],
    random_tag(1))

StoredUpload ==
  [_create_upload(3, random_tag(MaxVersions + 1), 1, 1, NoMeta) EXCEPT
     !.owner = _set_resource_acl_role(@, Root.client)]

InitStored ==
  /\ name = InitNames
  /\ version = <<StoredVersion>>
  /\ upload = <<StoredUpload>>
  /\ files = (<<ObjPath, random_tag(1)>> :> <<1>>)
             @@ (<<ObjPath, random_tag(MaxVersions + 1)>> :> <<>>)
  /\ puts = {}
  /\ creates = {}
  /\ handles = {}
  /\ fins = EmptyBag
  /\ thunks = {}
  /\ done = {1}
  /\ issued = {random_tag(1)}
  /\ sent = << <<>> >>
  /\ nops = 0
  /\ last = [op |-> "init", out |-> "ok", id |-> 0]

AllCtx == {Root, Foo, Bar, Anon}
AclCallers == {Root, Foo, Anon}
AclTargets ==
  {NameTarget(n) : n \in DOMAIN name \ {1}} \cup {VersionTarget(v) : v \in DOMAIN version}
    \cup {UploadTarget(u) : u \in DOMAIN upload}
Accesses == {"owner", "read", "create", "subtree-owner", "subtree-read"}
Roles == {"foo", "grp", Star}
AclLists == {{"foo", "bar"}, {}}
NewPaths == {<<"a", "n", "m">>}
Creators == {Root, Anon}

NextAcl ==
  \/ \E t \in AclTargets, access \in Accesses, role \in Roles, ctx \in AclCallers :
       SetRole(t, access, role, ctx)
  \/ \E t \in AclTargets, access \in Accesses, role \in Roles, ctx \in AclCallers :
       DropRole(t, access, role, ctx)
  \/ \E t \in AclTargets, access \in Accesses, roles \in AclLists, ctx \in AclCallers :
       SetAcl(t, access, roles, ctx)
  \/ \E path \in NewPaths, make_parents \in BOOLEAN, ctx \in Creators :
       CreateName(path, FALSE, make_parents, ctx)
  \/ \E ctx \in AllCtx : GetObject(ctx)

SpecAcl == InitStored /\ [][NextAcl]_vars

\* metadata updates: a digest of either kind, equal to or different from the
\* stored one, and a content type
MetaUpdates ==
  {[k \in {"content-md5"} |-> MD5(<<1>>)], [k \in {"content-md5"} |-> MD5(<<2>>)],
   [k \in {"content-sha256"} |-> <<"sha256", <<1>>>>],
   [k \in {"content-sha256"} |-> <<"sha256", <<2>>>>],
   [k \in {"content-type"} |-> "text/plain"], [k \in {"content-type"} |-> "text/csv"]}

NextMeta ==
  \/ \E updates \in MetaUpdates, ctx \in AclCallers : UpdateMetadata(1, updates, ctx)
  \/ \E k \in _all_keys, ctx \in AclCallers : PopMetadata(1, k, ctx)

SpecMeta == InitStored /\ [][NextMeta]_vars

(***************************************************************************)
(* Names: create_name as a REPEATABLE READ transaction, delete_name and    *)
(* the other deletions with their backend calls, and resolution by path,   *)
(* on the same store.                                                      *)
(***************************************************************************)
\* create_name up to its first statement, where the transaction takes its
\* snapshot of hatrac.name
CreateNameBegin(path, is_object, make_parents, ctx) ==
  /\ Cardinality(creates) < MaxCreates
  /\ creates' = creates \cup
       {[path |-> path, is_object |-> is_object, make_parents |-> make_parents,
         ctx |-> ctx, snapshot |-> name]}
  /\ UNCHANGED <<name, version, upload, files, puts, handles, fins, thunks,
                 done, sent, issued, nops, last>>

\* the rows a create_name transaction inserts, with the ids the sequence of
\* hatrac.name gives them when base rows were seen and shift more exist
InsertedRows(tbl, base, shift) ==
  LET Renumber(i) == IF i > base THEN i + shift ELSE i
  IN [k \in 1..(Len(tbl) - base) |->
        [tbl[base + k] EXCEPT !.pid = Renumber(@),
                              !.ancestors = [j \in DOMAIN @ |-> Renumber(@[j])]]]

\* the rest of create_name and the commit of pc.perform: the lookups read the
\* snapshot; an INSERT of a name that a transaction committed in the meantime
\* holds breaks UNIQUE(name) and raises psycopg2.IntegrityError, which perform
\* rolls back and raises again
CreateNameCommit(tx) ==
  /\ tx \in creates
  /\ creates' = creates \ {tx}
  /\ LET r == create_name(tx.snapshot, tx.path, tx.is_object, tx.make_parents, tx.ctx)
         rows == InsertedRows(r.tbl, Len(tx.snapshot), Len(name) - Len(tx.snapshot))
         unique_violation ==
           \E k \in DOMAIN rows, i \in DOMAIN name : name[i].name = rows[k].name
     IN IF r.out # "ok"
        THEN Say("create_name", r.out, 0) /\ UNCHANGED name
        ELSE IF unique_violation
        THEN Say("create_name", "IntegrityError", 0) /\ UNCHANGED name
        ELSE /\ name' = name \o rows
             /\ Say("create_name", "ok", Len(name) + Len(rows))
  /\ UNCHANGED <<version, upload, files, puts, handles, fins, thunks, done, sent, issued, nops>>

\* name_resolve(path)
NameResolve(path) ==
  /\ LET nid == _name_lookup(path, TRUE)
     IN Say("name_resolve", IF nid = 0 THEN "NotFound" ELSE "ok", nid)
  /\ UNCHANGED <<creates, name, version, upload, files, puts, handles, fins, thunks,
                 done, sent, issued, nops>>

NameCallers == {Root, Foo, Anon}
GrantTargets == {NameTarget(2), NameTarget(3), VersionTarget(1)}

\* the paths of the rows of hatrac.name: a request holds a resource that some
\* name_resolve gave it
KnownPaths == {name[n].name : n \in DOMAIN name}

\* deletions by every kind of caller, after root has made foo an owner of some
\* of the resources
NextNames ==
  \/ \E path \in KnownPaths, ctx \in NameCallers : DeleteName(path, ctx)
  \/ \E vid \in DOMAIN version, ctx \in NameCallers : DeleteVersion(vid, ctx)
  \/ \E uid \in DOMAIN upload, ctx \in NameCallers : UploadCancel(uid, ctx)
  \/ \E t \in thunks : ThunkStep(t)
  \/ \E t \in GrantTargets : SetRole(t, "owner", Foo.client, Root)
  \/ \E path \in KnownPaths : NameResolve(path)
  \/ GetCurrentVersion

SpecNames == InitStored /\ [][NextNames]_vars

\* concurrent create_name transactions for /a/n and /a/n/m and delete_name of
\* the names they make, all by root
CreatePaths == {<<"a", "n">>, <<"a", "n", "m">>}

NextRace ==
  \/ \E path \in CreatePaths, make_parents \in BOOLEAN :
       CreateNameBegin(path, FALSE, make_parents, Root)
  \/ \E tx \in creates : CreateNameCommit(tx)
  \/ \E path \in CreatePaths \cap KnownPaths : DeleteName(path, Root)
  \/ \E t \in thunks : ThunkStep(t)
  \/ \E path \in CreatePaths : NameResolve(path)

SpecRace == InitStored /\ [][NextRace]_vars

(***************************************************************************)
(* Creation: names with and without make_parents, the version rows of      *)
(* single PUTs and upload jobs with their finalize, by root, by foo (whom root may     *)
(* grant create on /a and update on /a/o) and by an anonymous caller, on   *)
(* the store that holds /a and /a/o only.                                  *)
(***************************************************************************)
\* names to create: below a missing namespace, below the object /a/o, and
\* with an illegal component as the leaf or as a parent
CreateRequests ==
  {<<"a", "n", "m">>, <<"a", "o", "x", "y">>, <<"a", "..", "m">>, <<"a", "n", ".">>}
CreateCallers == {Root, Foo, Anon}
CreateGrants == {<<NameTarget(2), "create">>, <<NameTarget(3), "update">>}

NextCreate ==
  \/ \E path \in CreateRequests, is_object \in BOOLEAN, make_parents \in BOOLEAN,
        ctx \in CreateCallers : CreateName(path, is_object, make_parents, ctx)
  \/ \E g \in CreateGrants : SetRole(g[1], g[2], Foo.client, Root)
  \/ \E ctx \in CreateCallers, nbytes \in PutSizes, md \in Metas : PutCreate(ctx, nbytes, md)
  \/ \E ctx \in CreateCallers, shape \in Shapes, md \in Metas :
       CreateUpload(ctx, shape[1], shape[2], md)
  \/ \E uid \in DOMAIN upload, ctx \in CreateCallers : FinalizeBegin(uid, ctx)
  \/ \E t \in BagToSet(fins) : FinalizeCommit(t)

SpecCreate == Init /\ [][NextCreate]_vars

(***************************************************************************)
(* Chunks: upload_chunk_from_file at every position and with bodies of     *)
(* every size, by the owner and by foo, on a store that holds /a/o and one *)
(* upload job on it, created by root with one of the shapes.               *)
(***************************************************************************)
\* the (chunk size, total size) of the job: a final partial chunk, full
\* chunks only, a single chunk
ChunkShapes == {<<2, 5>>, <<2, 4>>, <<1, 1>>}
ChunkInputs == {<<1>>, <<1, 1>>, <<1, 1, 1>>}
ChunkCallers == {Root, Foo}

InitChunk ==
  /\ name = InitNames
  /\ version = <<>>
  /\ \E shape \in ChunkShapes :
       upload = <<[_create_upload(3, random_tag(MaxVersions + 1), shape[1], shape[2], NoMeta)
                     EXCEPT !.owner = _set_resource_acl_role(@, Root.client)]>>
  /\ files = (<<ObjPath, random_tag(MaxVersions + 1)>> :> <<>>)
  /\ puts = {}
  /\ creates = {}
  /\ handles = {Handle(1)}
  /\ fins = EmptyBag
  /\ thunks = {}
  /\ done = {}
  /\ issued = {}
  /\ sent = << <<>> >>
  /\ nops = 0
  /\ last = [op |-> "init", out |-> "ok", id |-> 0]

NextChunk ==
  \/ \E h \in handles, ctx \in ChunkCallers, pos \in 0..MaxChunkPosition,
        input \in ChunkInputs : UploadChunk(h, ctx, pos, input, Len(input), NoMeta)
  \/ \E uid \in DOMAIN upload : UploadResolve(uid)

SpecChunk == InitChunk /\ [][NextChunk]_vars

(***************************************************************************)
(* Concurrent upload jobs: two jobs on /a/o, both created by root, filled, *)
(* finalized and cancelled in any interleaving.                            *)
(***************************************************************************)
JobRow(k) ==
  [_create_upload(3, random_tag(MaxVersions + k), 1, 1, NoMeta)
     EXCEPT !.owner = _set_resource_acl_role(@, Root.client)]

InitJobs ==
  /\ name = InitNames
  /\ version = <<>>
  /\ upload = <<JobRow(1), JobRow(2)>>
  /\ files = (<<ObjPath, JobRow(1).job>> :> <<>>) @@ (<<ObjPath, JobRow(2).job>> :> <<>>)
  /\ puts = {}
  /\ creates = {}
  /\ handles = {Handle(1), Handle(2)}
  /\ fins = EmptyBag
  /\ thunks = {}
  /\ done = {}
  /\ issued = {}
  /\ sent = << <<>>, <<>> >>
  /\ nops = 0
  /\ last = [op |-> "init", out |-> "ok", id |-> 0]

NextJobs ==
  \/ \E h \in handles, input \in ChunkBodies : UploadChunk(h, Root, 0, input, Len(input), NoMeta)
  \/ \E uid \in DOMAIN upload : FinalizeBegin(uid, Root)
  \/ \E t \in BagToSet(fins) : FinalizeCommit(t)
  \/ \E uid \in DOMAIN upload : UploadCancel(uid, Root)
  \/ \E t \in thunks : ThunkStep(t)
  \/ \E uid \in DOMAIN upload : UploadResolve(uid)
  \/ GetCurrentVersion

SpecJobs == InitJobs /\ [][NextJobs]_vars

(***************************************************************************)
(* Authorization: the seven operations that reach the bulk backend, by foo *)
(* (whom root may grant update or owner on /a/o) and by an anonymous       *)
(* caller, on the store that holds /a and /a/o only.                       *)
(***************************************************************************)
AuthCallers == {Foo, Anon}
AuthGrants == {<<NameTarget(3), "update">>, <<NameTarget(3), "owner">>}

NextAuth ==
  \/ \E g \in AuthGrants : SetRole(g[1], g[2], Foo.client, Root)
  \/ \E ctx \in AuthCallers : PutCreate(ctx, 1, NoMeta)
  \/ \E p \in puts : PutStore(p, <<1>>)
  \/ \E p \in puts : PutComplete(p)
  \/ \E ctx \in AuthCallers : CreateUpload(ctx, 1, 1, NoMeta)
  \/ \E h \in handles, ctx \in AuthCallers : UploadChunk(h, ctx, 0, <<1>>, 1, NoMeta)
  \/ \E uid \in DOMAIN upload, ctx \in AuthCallers : FinalizeBegin(uid, ctx)
  \/ \E t \in BagToSet(fins) : FinalizeCommit(t)
  \/ \E uid \in DOMAIN upload, ctx \in AuthCallers : UploadCancel(uid, ctx)
  \/ \E vid \in DOMAIN version, ctx \in AuthCallers : DeleteVersion(vid, ctx)
  \/ \E ctx \in AuthCallers : DeleteName(ObjPath, ctx)
  \/ \E t \in thunks : ThunkStep(t)

SpecAuth == Init /\ [][NextAuth]_vars

(***************************************************************************)
(* Reads of the filesystem backend: get_content and get_content_range on   *)
(* the one stored version of /a/o, whose file holds the first bytes of     *)
(* 1, 2, 3, ...; the row carries no metadata or the digest of the content. *)
(* _bufsize is a class attribute of the backend (1024**2 in the source);   *)
(* the reads run with each of the sizes 1..MaxBufsize.                     *)
(***************************************************************************)
RangeContents == {[i \in 1..n |-> i] : n \in 0..MaxContent}
BufSizes == 1..MaxBufsize

\* the slices of a valid range 0 <= a < b <= nbytes: slice(a, b), and
\* slice(a, None) for the range that runs to the end
ValidSlices(nbytes) ==
  UNION {{<< <<a>>, <<b>> >> : b \in (a + 1)..nbytes} \cup {<< <<a>>, Unset >>} :
           a \in 0..(nbytes - 1)}

InitRange ==
  /\ name = InitNames
  /\ \E content \in RangeContents :
       \E md \in {NoMeta, [k \in {"content-md5"} |-> MD5(content)]} :
         /\ version = <<_complete_version(
                          [_create_version(3, Len(content), md) EXCEPT
                             !.owner = _set_resource_acl_role(@, Root.client)],
                          random_tag(1))>>
         /\ files = (<<ObjPath, random_tag(1)>> :> content)
  /\ upload = <<>>
  /\ puts = {}
  /\ creates = {}
  /\ handles = {}
  /\ fins = EmptyBag
  /\ thunks = {}
  /\ done = {1}
  /\ issued = {random_tag(1)}
  /\ sent = <<>>
  /\ nops = 0
  /\ last = [op |-> "init", out |-> "ok", id |-> 0]

\* the answer of a read with the buffers of its generator
Read(op, v, get_slice, bufsize, r) ==
  /\ last' = [op |-> op, out |-> r.out, id |-> v, get_slice |-> get_slice,
              bufsize |-> bufsize, length |-> r.length, buffers |-> r.buffers]
  /\ UNCHANGED <<name, version, upload, files, puts, creates, handles, fins, thunks,
                 done, sent, issued, nops>>

GetContent(v, bufsize) ==
  /\ v \in DOMAIN version /\ Visible(v)
  /\ Read("get_content", v, Unset, bufsize,
          get_content(files, FileKey(version[v].nameid, version[v].version),
                      from_sql(version[v].metadata), bufsize))

GetContentRange(v, get_slice, bufsize) ==
  /\ v \in DOMAIN version /\ Visible(v)
  /\ Read("get_content_range", v, get_slice, bufsize,
          get_content_range(files, FileKey(version[v].nameid, version[v].version),
                            from_sql(version[v].metadata), get_slice, bufsize))

NextRange ==
  \/ \E v \in DOMAIN version, bufsize \in BufSizes : GetContent(v, bufsize)
  \/ \E v \in DOMAIN version, bufsize \in BufSizes :
       \E get_slice \in ValidSlices(version[v].nbytes) : GetContentRange(v, get_slice, bufsize)

SpecRange == InitRange /\ [][NextRange]_vars

(***************************************************************************)
(* Overlay backend (hatrac/model/storage/overlay.py) over a prioritised    *)
(* list of sub-backends.  A sub-backend is its kind, its stored objects    *)
(* and its open upload jobs, both keyed by <<name, id>>.  The amazons3     *)
(* backend raises ObjectVersionMissing for an object it does not hold; the *)
(* filesystem backend does not know that exception, and its                *)
(* get_content_range takes no sixth positional argument, so the overlay's  *)
(* call of it raises TypeError.  S3 answers a Range that starts at or past *)
(* the end of the object with InvalidRange, a ClientError the amazons3     *)
(* backend re-raises.                                                      *)
(***************************************************************************)
Without(f, k) == [x \in DOMAIN f \ {k} |-> f[x]]

Raised(b, out) == [out |-> out, ret |-> Unset, b |-> b]

\* one method of the HatracStorage API on the sub-backend b
backend_call(b, method, key, arg) ==
  CASE method = "create_from_file" ->
         [out |-> "ok", ret |-> key[2], b |-> [b EXCEPT !.objects = (key :> arg) @@ @]]
    [] method = "create_upload" ->
         [out |-> "ok", ret |-> key[2], b |-> [b EXCEPT !.jobs = (key :> <<>>) @@ @]]
    [] method = "upload_chunk_from_file" ->
         IF key \notin DOMAIN b.jobs THEN Raised(b, "Error")
         ELSE [out |-> "ok", ret |-> Unset,
               b |-> [b EXCEPT !.jobs[key] = WriteAt(@, arg.position * arg.chunksize, arg.input)]]
    [] method = "finalize_upload" ->
         IF key \notin DOMAIN b.jobs THEN Raised(b, "Error")
         ELSE [out |-> "ok", ret |-> key[2],
               b |-> [b EXCEPT !.objects = (key :> b.jobs[key]) @@ @,
                               !.jobs = Without(@, key)]]
    [] method = "cancel_upload" ->
         IF key \notin DOMAIN b.jobs THEN Raised(b, "Error")
         ELSE [out |-> "ok", ret |-> Unset, b |-> [b EXCEPT !.jobs = Without(@, key)]]
    [] method = "delete" ->
         IF key \notin DOMAIN b.objects
         THEN Raised(b, IF b.kind = "amazons3" THEN "ObjectVersionMissing" ELSE "Error")
         ELSE [out |-> "ok", ret |-> Unset, b |-> [b EXCEPT !.objects = Without(@, key)]]
    [] method = "delete_namespace" ->
         [out |-> "ok", ret |-> Unset, b |-> b]
    [] method = "get_content_range" ->
         IF b.kind = "filesystem" THEN Raised(b, "TypeError")
         ELSE IF key \notin DOMAIN b.objects THEN Raised(b, "ObjectVersionMissing")
         ELSE LET nbytes == Len(b.objects[key])
                  pos == coalesce(arg[1], 0)
                  limit == coalesce(arg[2], nbytes)
              IN IF pos >= nbytes
                 THEN Raised(b, "Error")
                 ELSE [out |-> "ok", b |-> b,
                       ret |-> SubSeq(b.objects[key], pos + 1, Min(limit, nbytes))]

\* the overlay's methods that write
WriteMethods == {"create_from_file", "create_upload", "upload_chunk_from_file",
                 "finalize_upload", "cancel_upload", "delete", "delete_namespace"}

\* an overlay whose delete lets the exception of the primary through
overlay_write_unhandled(backends, method, key, arg) ==
  LET r == backend_call(backends[1], method, key, arg)
  IN [out |-> r.out, ret |-> r.ret, backends |-> [backends EXCEPT ![1] = r.b],
      calls |-> << <<1, method>> >>]

\* a write method of the overlay: self.backends[0].method(...); delete
\* swallows ObjectVersionMissing and returns None
overlay_write(backends, method, key, arg) ==
  LET r == backend_call(backends[1], method, key, arg)
  IN [out |-> IF method = "delete" /\ r.out = "ObjectVersionMissing" THEN "ok" ELSE r.out,
      ret |-> r.ret,
      backends |-> [backends EXCEPT ![1] = r.b],
      calls |-> << <<1, method>> >>]

\* the loop of the overlay's get_content_range from the sub-backend i on,
\* with the calls made so far
RECURSIVE overlay_get_content_range_any(_, _, _, _, _)
overlay_get_content_range_any(backends, i, key, get_slice, calls) ==
  IF i > Len(backends)
  THEN [out |-> "ObjectVersionMissing", ret |-> Unset, backends |-> backends, calls |-> calls]
  ELSE LET r == backend_call(backends[i], "get_content_range", key, get_slice)
           made == Append(calls, <<i, "get_content_range">>)
       IN IF r.out # "ok"
          THEN overlay_get_content_range_any(backends, i + 1, key, get_slice, made)
          ELSE [out |-> r.out, ret |-> r.ret, backends |-> backends, calls |-> made]

RECURSIVE overlay_get_content_range(_, _, _, _, _)
overlay_get_content_range(backends, i, key, get_slice, calls) ==
  IF i > Len(backends)
  THEN [out |-> "ObjectVersionMissing", ret |-> Unset, backends |-> backends, calls |-> calls]
  ELSE LET r == backend_call(backends[i], "get_content_range", key, get_slice)
           made == Append(calls, <<i, "get_content_range">>)
       IN IF r.out = "ObjectVersionMissing"
          THEN overlay_get_content_range(backends, i + 1, key, get_slice, made)
          ELSE [out |-> r.out, ret |-> r.ret, backends |-> backends, calls |-> made]

\* the sub-backend lists, the bodies and the slices of the requests
OverlayConfigs == {<<"amazons3", "amazons3">>, <<"amazons3", "amazons3", "amazons3">>,
                   <<"filesystem", "amazons3">>, <<"amazons3", "filesystem">>}
OverlayBodies == {<<1>>, <<1, 1>>}
OverlaySlices == {Unset, << <<0>>, <<1>> >>}
OverlayTags == 1..MaxOverlayTag

\* the version /a/o:1 comes from the store the directory was cloned from:
\* any of the sub-backends may hold it, sub-backend i with the content <<i>>
InitOverlay ==
  /\ name = InitNames
  /\ version = <<_complete_version(
                   [_create_version(3, 1, NoMeta) EXCEPT
                      !.owner = _set_resource_acl_role(@, Root.client)],
                   random_tag(1))>>
  /\ \E kinds \in OverlayConfigs : \E holders \in SUBSET DOMAIN kinds :
       files = [i \in DOMAIN kinds |->
                  [kind |-> kinds[i],
                   objects |-> IF i \in holders THEN (<<ObjPath, random_tag(1)>> :> <<i>>) ELSE <<>>,
                   jobs |-> <<>>]]
  /\ upload = <<>>
  /\ puts = {}
  /\ creates = {}
  /\ handles = {}
  /\ fins = EmptyBag
  /\ thunks = {}
  /\ done = {1}
  /\ issued = {random_tag(1)}
  /\ sent = <<>>
  /\ nops = 0
  /\ last = [op |-> "init", out |-> "ok", id |-> 0]

\* a request of the directory to the overlay: the answer, and the calls the
\* overlay made to its sub-backends
Overlay(method, key, arg, r) ==
  /\ files' = r.backends
  /\ last' = [op |-> method, out |-> r.out, id |-> key[2], arg |-> arg, ret |-> r.ret,
              calls |-> r.calls]
  /\ UNCHANGED <<name, version, upload, puts, creates, handles, fins, thunks,
                 done, sent, nops>>

\* create_from_file and create_upload: the sub-backend draws the tag
OverlayCreate(method, tag, arg) ==
  /\ method \in {"create_from_file", "create_upload"}
  /\ tag \notin issued
  /\ issued' = issued \cup {tag}
  /\ Overlay(method, <<ObjPath, tag>>, arg, overlay_write(files, method, <<ObjPath, tag>>, arg))

OverlayWrite(method, tag, arg) ==
  /\ method \in WriteMethods \ {"create_from_file", "create_upload"}
  /\ UNCHANGED issued
  /\ Overlay(method, <<ObjPath, tag>>, arg, overlay_write(files, method, <<ObjPath, tag>>, arg))

OverlayGetContentRange(tag, get_slice) ==
  /\ UNCHANGED issued
  /\ LET sl == IF get_slice = Unset THEN << <<0>>, Unset >> ELSE get_slice
     IN Overlay("get_content_range", <<ObjPath, tag>>, sl,
                overlay_get_content_range(files, 1, <<ObjPath, tag>>, sl, <<>>))

NextOverlay ==
  \/ \E tag \in OverlayTags, input \in OverlayBodies : OverlayCreate("create_from_file", tag, input)
  \/ \E tag \in OverlayTags : OverlayCreate("create_upload", tag, Unset)
  \/ \E tag \in OverlayTags, position \in 0..MaxPosition :
       OverlayWrite("upload_chunk_from_file", tag,
                    [position |-> position, chunksize |-> 1, input |-> <<1>>])
  \/ \E tag \in OverlayTags : OverlayWrite("finalize_upload", tag, Unset)
  \/ \E tag \in OverlayTags : OverlayWrite("cancel_upload", tag, Unset)
  \/ \E tag \in OverlayTags : OverlayWrite("delete", tag, Unset)
  \/ \E tag \in OverlayTags : OverlayWrite("delete_namespace", tag, Unset)
  \/ \E tag \in OverlayTags, get_slice \in OverlaySlices : OverlayGetContentRange(tag, get_slice)

SpecOverlay == InitOverlay /\ [][NextOverlay]_vars

(***************************************************************************)
(* Properties of the lifecycle.                                            *)
(***************************************************************************)
\* the versions of /a/o that a reader can be handed in this state
Returned ==
  LET oid == _name_lookup(ObjPath, TRUE)
      cur == get_current_version(ObjPath)
  IN (IF cur.out = "ok" THEN {cur.id} ELSE {})
     \cup object_enumerate_versions(ObjPath)
     \cup (IF oid = 0 THEN {} ELSE {version_resolve(oid, t) : t \in AllTags} \ {0})

\* the rows whose request ended between create_version and complete_version
Abandoned ==
  {v \in DOMAIN version : version[v].version = NoTag /\ \A p \in puts : p.vid # v}

\* C1: every version that get_current_version, object_enumerate_versions or
\* version_resolve returns is one whose complete_version has committed, a
\* committed complete_version carries a tag that the backend had returned, and
\* a row left between create_version and complete_version is returned to no
\* reader.
C1_ReadersSeeCompleted ==
  /\ Returned \subseteq done
  /\ \A v \in done : version[v].version \in issued
  /\ Returned \cap Abandoned = {}
  /\ \A p \in puts : p.pc \in {"created", "stored"} => p.vid \notin Returned
  /\ (last.op \in {"get_current_version", "version_resolve"} /\ last.out = "ok")
       => last.id \in done

\* a reader is answered while one PUT stopped after create_version and another
\* PUT has its bytes stored but is not yet completed
C1_Witness ==
  /\ last.op = "get_current_version" /\ last.out = "Conflict"
  /\ Abandoned # {}
  /\ \E p \in puts : p.pc = "stored"

\* the visible versions of an object
VisibleOf(oid) == {v \in DOMAIN version : version[v].nameid = oid /\ Visible(v)}

\* C2: for an object that has not been deleted, get_current_version returns
\* the visible version (non-null tag, is_deleted false) with the highest
\* serial id, and fails with Conflict when the object has no visible version.
C2_CurrentIsHighestVisible ==
  LET oid == _name_lookup(ObjPath, TRUE)
      cur == get_current_version(ObjPath)
      vis == VisibleOf(oid)
  IN oid # 0 =>
       /\ vis = {} => cur.out = "Conflict"
       /\ vis # {} => cur.out = "ok" /\ cur.id \in vis /\ \A w \in vis : w <= cur.id
       /\ last.op = "get_current_version" => last.out = cur.out /\ last.id = cur.id

\* the newest version was visible and has been deleted: the older one is current
C2_Witness ==
  /\ Len(version) = 2
  /\ version[2].version # NoTag /\ version[2].is_deleted
  /\ last.op = "get_current_version" /\ last.out = "ok" /\ last.id = 1

\* C3: no step changes or removes the stored bytes of a version that is
\* visible when the step is taken.
C3_VisibleBytesNeverChange ==
  [][\A v \in DOMAIN version :
       LET key == FileKey(version[v].nameid, version[v].version)
       IN (Visible(v) /\ key \in DOMAIN files)
            => (key \in DOMAIN files' /\ files'[key] = files[key])]_vars

\* nchunks of a job: the chunks at positions 0..nchunks-1 cover nbytes
nchunks(u) == (u.nbytes + u.chunksize - 1) \div u.chunksize

\* the chunks last accepted at positions 0..n-1 of a job, in position order
RECURSIVE Concat(_, _)
Concat(chunks, n) ==
  IF n = 0 THEN <<>> ELSE Concat(chunks, n - 1) \o chunks[n - 1]

\* C4: when upload_finalize has just succeeded for a job whose positions
\* 0..nchunks-1 have all been uploaded, the bytes stored for the new version
\* are the concatenation, in position order, of the chunk last uploaded at
\* each position.
C4_FinalizedBytesAreChunks ==
  (last.op = "upload_finalize" /\ last.out = "ok") =>
    LET v == last.id
        key == FileKey(version[v].nameid, version[v].version)
        jobs == {u \in DOMAIN upload : upload[u].job = version[v].version}
    IN \A u \in jobs :
         (\A pos \in 0..(nchunks(upload[u]) - 1) : pos \in DOMAIN sent[u])
           => (key \in DOMAIN files /\ files[key] = Concat(sent[u], nchunks(upload[u])))

\* C5 as stated: a version's tag is null if and only if the version is invisible.
C5_NullIffInvisible ==
  \A v \in DOMAIN version : (version[v].version = NoTag) <=> ~Visible(v)

\* C5: a version whose tag is null is invisible (is_deleted is true), the tag
\* is non-null exactly for the rows whose complete_version has committed, and
\* a soft-deleted row keeps its tag.
C5_NullImpliesInvisible ==
  \A v \in DOMAIN version :
    /\ version[v].version = NoTag => (version[v].is_deleted /\ ~Visible(v))
    /\ version[v].version # NoTag <=> v \in done

\* one row is soft-deleted with its tag kept, another has no tag yet
C5_Witness ==
  /\ \E v \in DOMAIN version : version[v].version # NoTag /\ version[v].is_deleted
  /\ \E w \in DOMAIN version : version[w].version = NoTag

\* C6: no step changes a tag that is set, and no two version rows of one
\* object, live or soft-deleted, carry the same tag.
C6_TagImmutableAndUnique ==
  [][/\ \A v \in DOMAIN version :
          version[v].version # NoTag => version'[v].version = version[v].version
     /\ \A v \in DOMAIN version', w \in DOMAIN version' :
          (v # w /\ version'[v].nameid = version'[w].nameid /\ version'[v].version # NoTag)
            => version'[v].version # version'[w].version]_vars

\* the second of two concurrent upload_finalize calls has failed, the first
\* one's version has since been soft-deleted, and a PUT version stands beside it
C6_Witness ==
  /\ last.op = "upload_finalize" /\ last.out = "Error"
  /\ \E v \in DOMAIN version, w \in DOMAIN version :
       /\ v # w /\ version[v].version # NoTag /\ version[w].version # NoTag
       /\ version[v].is_deleted

(***************************************************************************)
(* Properties of metadata and of ACLs.                                     *)
(***************************************************************************)
\* C7: the content-md5 of the stored version, whenever it has a value, is the
\* value it was given first; an update_resource_metadata that fails with
\* Conflict and any other failed request leave the metadata as stored.
C7_WriteOnce ==
  LET md == from_sql(version[1].metadata)
  IN "content-md5" \in DOMAIN md
       => md["content-md5"] = from_sql(StoredVersion.metadata)["content-md5"]

\* the access lists the directory's methods enforce
AccessLists ==
  {{"owner"}, {"owner", "ancestor_owner"}, read_acl, create_name_acl, create_version_acl}

\* the resources of the store as loaded: every name row, every version row
AllRes == {NameRes(n) : n \in DOMAIN name} \cup {VersionRes(v) : v \in DOMAIN version}

\* the union of the listed ACLs of a loaded resource
ListedAcl(res, accesses) == UNION {res.acls[a] : a \in accesses \cap DOMAIN res.acls}

\* C8: enforce_acl accepts exactly when the union of the listed ACLs holds
\* "*", or the client id of an authenticated caller, or one of the caller's
\* attribute ids; otherwise the outcome is Forbidden for an authenticated
\* caller and Unauthenticated for an anonymous one.
C8_AcceptRule ==
  \A res \in AllRes, accesses \in AccessLists, ctx \in AllCtx :
    LET acl == ListedAcl(res, accesses)
        accept == \/ Star \in acl
                  \/ (ctx.client # None /\ ctx.client \in acl)
                  \/ acl \cap ctx.attributes # {}
    IN enforce_acl(res, accesses, ctx) =
         IF accept THEN "ok"
         ELSE IF ctx.client # None THEN "Forbidden" ELSE "Unauthenticated"

\* C9: a set_resource_acl_role that succeeds takes access away from no one:
\* whoever enforce_acl accepted on a name or a version for an access list
\* before the step is accepted after it.
C9_SetRoleMonotone ==
  [][(last'.op = "set_resource_acl_role" /\ last'.out = "ok") =>
       /\ \A n \in DOMAIN name :
            LET before == NameRes(n)
                after == NameRes(n)'
            IN \A accesses \in AccessLists, ctx \in AllCtx :
                 enforce_acl(before, accesses, ctx) = "ok"
                   => enforce_acl(after, accesses, ctx) = "ok"
       /\ \A v \in DOMAIN version :
            LET before == VersionRes(v)
                after == VersionRes(v)'
            IN \A accesses \in AccessLists, ctx \in AllCtx :
                 enforce_acl(before, accesses, ctx) = "ok"
                   => enforce_acl(after, accesses, ctx) = "ok"]_vars

\* a role has just been added to an ACL of /a/o that already held one, and a
\* subtree ACL of its ancestor /a holds a role as well
C9_Witness ==
  /\ last.op = "set_resource_acl_role" /\ last.out = "ok"
  /\ Cardinality(name[3].acl["owner"]) >= 2
  /\ name[2].acl["subtree-read"] # {}

\* C10: a caller whose client id is in the read ACL of /a/o reads its current
\* version; an authenticated caller that no ACL of the object, of the version
\* or of an ancestor covers gets Forbidden, an anonymous one Unauthenticated.
C10_ObjectReadAclGrantsRead ==
  LET oid == _name_lookup(ObjPath, TRUE)
      cur == get_current_version(ObjPath)
  IN (oid # 0 /\ cur.out = "ok") =>
       \A ctx \in AllCtx :
         LET covering == UNION {name[oid].acl[a] : a \in Object_acl_names}
                         \cup ListedAcl(EnumeratedVersionRes(cur.id),
                                        Version_acl_names \cup Version_ancestor_acl_names)
         IN /\ (ctx.client # None /\ ctx.client \in name[oid].acl["read"])
                 => get_object(ObjPath, ctx) = "ok"
            /\ (Star \notin covering /\ ctx.client \notin covering
                /\ covering \cap ctx.attributes = {})
                 => get_object(ObjPath, ctx) =
                      IF ctx.client # None THEN "Forbidden" ELSE "Unauthenticated"

(***************************************************************************)
(* Properties of the ACL requests.                                         *)
(***************************************************************************)
\* the step is an ACL request of ctx on the ACL access of the resource t
AclRequest(t, access, ctx) ==
  \/ /\ last'.op = "set_resource_acl_role"
     /\ \E role \in Roles : SetRole(t, access, role, ctx)
  \/ /\ last'.op = "drop_resource_acl_role"
     /\ \E role \in Roles : DropRole(t, access, role, ctx)
  \/ /\ last'.op \in {"set_resource_acl", "clear_resource_acl"}
     /\ \E roles \in AclLists : SetAcl(t, access, roles, ctx)

\* the caller matches the owner or ancestor_owner ACL of the loaded resource:
\* the ACL holds "*", the client id of an authenticated caller, or one of the
\* caller's attributes
MatchesOwner(res, ctx) ==
  LET acl == ListedAcl(res, {"owner", "ancestor_owner"})
  IN \/ Star \in acl
     \/ (ctx.client # None /\ ctx.client \in acl)
     \/ acl \cap ctx.attributes # {}

\* C11: set_role, drop_role, set and clear on an ACL of a name, a version or
\* an upload, by a caller who does not match the resource's owner or
\* ancestor_owner ACL, fail with Forbidden (authenticated caller) or
\* Unauthenticated (anonymous caller) and leave every ACL unchanged.
C11_OwnerOnly ==
  [][\A ctx \in AclCallers :
       \/ /\ last'.out = IF ctx.client # None THEN "Forbidden" ELSE "Unauthenticated"
          /\ UNCHANGED <<name, version, upload>>
       \/ \A t \in AclTargets :
            (Reload(t) # 0 /\ ~MatchesOwner(Res(t), ctx))
              => \A access \in Accesses : ~AclRequest(t, access, ctx)]_vars

\* C12: drop_role(access, role) by a caller the owner gate lets through, on
\* an ACL of the resource that does not hold role, fails with NotFound and
\* leaves the ACL as it was.
C12_DropAbsentRole ==
  \A t \in AclTargets, ctx \in AclCallers :
    owner_gate(t, ctx) = "ok" =>
      \A access \in Accesses \cap acl_names(t), role \in Roles :
        role \notin AclOf(t, access) =>
          LET r == drop_resource_acl_role(t, access, role, ctx)
          IN r.out = "NotFound" /\ r.acl = AclOf(t, access)

\* a drop of an absent role has just been refused with NotFound, on a store
\* where the read ACL of /a/o holds another role
C12_Witness ==
  /\ last.op = "drop_resource_acl_role" /\ last.out = "NotFound"
  /\ name[3].acl["read"] # {}

\* C13: after a drop_role(access, role) that succeeds, the ACL is the ACL
\* before without role, every other ACL of every resource is as before, and
\* a caller whom that ACL accepted only through role is no longer accepted
\* by it.
C13_DropRemoves ==
  [][(last'.op = "drop_resource_acl_role" /\ last'.out = "ok") =>
       \A t \in AclTargets, access \in Accesses, role \in Roles, ctx \in AclCallers :
         DropRole(t, access, role, ctx) =>
           /\ role \notin AclOf(t, access)'
           /\ AclOf(t, access)' = AclOf(t, access) \ {role}
           /\ \A t2 \in AclTargets :
                \A a2 \in acl_names(t2) :
                  <<t2, a2>> # <<t, access>> => AclOf(t2, a2)' = AclOf(t2, a2)
           /\ \A c \in AllCtx :
                LET others == [acls |-> (access :> (AclOf(t, access) \ {role}))]
                IN (enforce_acl(Res(t), {access}, c) = "ok"
                    /\ enforce_acl(others, {access}, c) # "ok")
                     => enforce_acl(Res(t), {access}, c)' # "ok"]_vars

\* foo has just been dropped from the read ACL of /a/o, which was set to foo
\* and bar and still holds bar
C13_Witness ==
  /\ last.op = "drop_resource_acl_role" /\ last.out = "ok"
  /\ name[3].acl["read"] = {"bar"}

\* the rows whose path is a proper prefix of path: the root through the parent
ProperAncestors(path) == {a \in DOMAIN name : IsPrefix(name[a].name, path)}

\* the access X of the inherited ACL name ancestor_X
InheritedAccess(an) ==
  CASE an = "ancestor_owner" -> "owner"
    [] an = "ancestor_create" -> "create"
    [] an = "ancestor_update" -> "update"
    [] an = "ancestor_read" -> "read"

\* the union of the subtree-X ACLs of the proper ancestors of path
UnionOverAncestors(path, an) ==
  UNION {name[a].acl[SubtreeCol(InheritedAccess(an))] : a \in ProperAncestors(path)}

\* C14: every inherited ACL ancestor_X that a lookup loads with a name, a
\* version or an upload is the union of the subtree-X ACLs, as they are
\* stored when the lookup runs, of exactly the names from the root through
\* the parent of the name (for a version or an upload: of its object).
C14_InheritedAclIsUnionOverAncestors ==
  /\ \A n \in DOMAIN name :
       \A an \in DOMAIN NameRes(n).acls \cap
                 {"ancestor_owner", "ancestor_create", "ancestor_update"} :
         NameRes(n).acls[an] = UnionOverAncestors(name[n].name, an)
  /\ \A v \in DOMAIN version :
       \A an \in {"ancestor_owner", "ancestor_read"} :
         VersionRes(v).acls[an] = UnionOverAncestors(name[version[v].nameid].name, an)
  /\ \A u \in DOMAIN upload :
       UploadRes(u).acls["ancestor_owner"]
         = UnionOverAncestors(name[upload[u].nameid].name, "ancestor_owner")

\* foo has just been put in the subtree-owner ACL of /a after /a/n/m was
\* created below it, and /a/n/m loads foo in its ancestor_owner ACL
C14_Witness ==
  /\ last.op = "set_resource_acl_role" /\ last.out = "ok"
  /\ Len(name) = 5
  /\ "foo" \in name[2].acl["subtree-owner"]
  /\ "foo" \in NameRes(5).acls["ancestor_owner"]
  /\ "foo" \in UploadRes(1).acls["ancestor_owner"]

(***************************************************************************)
(* Properties of deletion and of name creation.                            *)
(***************************************************************************)
\* the live names below the name nid, and nid itself
Subtree(nid) ==
  {n \in DOMAIN name : (n = nid \/ nid \in Range(name[n].ancestors)) /\ ~name[n].is_deleted}

\* the caller is refused as owner on a live child name, on a version that is
\* not deleted or on an upload below nid
DeniedBelow(nid, ctx) ==
  \/ \E n \in Subtree(nid) \ {nid} :
       enforce_acl(NameRes(n), {"owner", "ancestor_owner"}, ctx) # "ok"
  \/ \E v \in DOMAIN version :
       /\ version[v].nameid \in Subtree(nid) /\ ~version[v].is_deleted
       /\ enforce_acl(VersionRes(v), {"owner", "ancestor_owner"}, ctx) # "ok"
  \/ \E u \in DOMAIN upload :
       /\ upload[u].nameid \in Subtree(nid) /\ upload[u].present
       /\ enforce_acl(UploadRes(u), {"owner", "ancestor_owner"}, ctx) # "ok"

\* C15: a delete_name by a caller who is refused as owner on one of the
\* versions, child names or uploads below the name fails, and then no row
\* of name, version or upload changes and no backend call is queued or made.
C15_DeleteChecksEveryDescendant ==
  [][last'.op = "delete_name" =>
       \A path \in KnownPaths, ctx \in NameCallers :
         LET nid == _name_lookup(path, TRUE)
         IN (nid # 0 /\ DeniedBelow(nid, ctx) /\ DeleteName(path, ctx))
              => /\ last'.out # "ok"
                 /\ UNCHANGED <<name, version, upload, thunks, files>>]_vars

\* C16: when delete_name of a path succeeds, every name that was live at or
\* below the path no longer resolves, every version of those names is
\* soft-deleted and every upload of those names is gone, all in that one step.
C16_DeleteRemovesSubtree ==
  [][(last'.op = "delete_name" /\ last'.out = "ok") =>
       \A path \in KnownPaths, ctx \in NameCallers :
         LET nid == _name_lookup(path, TRUE)
             below == Subtree(nid)
         IN (nid # 0 /\ DeleteName(path, ctx))
              => /\ \A n \in below : name_lookup_in(name', name[n].name, TRUE) = 0
                 /\ \A v \in DOMAIN version :
                      version[v].nameid \in below => version'[v].is_deleted
                 /\ \A u \in DOMAIN upload :
                      upload[u].nameid \in below => ~upload'[u].present]_vars

\* the outcome of delete_name on the root for a caller, with either refusal
RootDeleteFails(refusal) ==
  /\ ~name[1].is_deleted /\ ~name'[1].is_deleted
  /\ \A ctx \in NameCallers :
       DeleteName(RootPath, ctx)
         => /\ last'.out = refusal[ctx]
            /\ UNCHANGED <<name, version, upload, thunks, files>>

\* C17: the root namespace is live in every state, and delete_name on the
\* root changes nothing and fails: with Unauthenticated for an anonymous
\* caller whom the owner ACLs of the root do not accept, with Forbidden for
\* every other caller.
C17_RootIsPermanent ==
  [][RootDeleteFails([ctx \in NameCallers |->
                        IF ctx.client = None /\ ~MatchesOwner(NameRes(1), ctx)
                        THEN "Unauthenticated" ELSE "Forbidden"])]_vars

\* C17 as stated: the root namespace is live in every state, and delete_name
\* on the root by any caller fails with Forbidden and changes nothing.
C17_RootDeleteForbidden ==
  [][RootDeleteFails([ctx \in NameCallers |-> "Forbidden"])]_vars

\* an anonymous caller has been refused the deletion of the live root, after
\* deletions below it
C17_Witness ==
  /\ last.op = "delete_name" /\ last.id = 1 /\ last.out = "Unauthenticated"
  /\ ~name[1].is_deleted /\ name[2].is_deleted

\* the rows a backend call is made for are already soft-deleted or removed
Committed(c) ==
  IF c.call = "cancel_upload"
  THEN \A u \in DOMAIN upload :
         (upload[u].job = c.tag /\ name[upload[u].nameid].name = c.path)
           => ~upload[u].present
  ELSE IF c.call = "delete"
  THEN \A v \in DOMAIN version :
         (version[v].version = c.tag /\ name[version[v].nameid].name = c.path)
           => version[v].is_deleted
  ELSE \A n \in DOMAIN name : name[n].name = c.path => name[n].is_deleted

\* C18: a backend call is queued only together with the commit that
\* soft-deletes or removes its rows, a stored file is removed only for rows
\* whose deletion was committed before, and a delete_name, delete_version or
\* upload_cancel that fails queues no call, removes no file and changes no row.
C18_BackendCallsAfterCommit ==
  [][/\ \A t \in thunks' : \A i \in 1..Len(t) : Committed(t[i])'
     /\ \A key \in DOMAIN files \ DOMAIN files' :
          /\ \E t \in thunks : Len(t) > 0 /\ <<Head(t).path, Head(t).tag>> = key
          /\ Committed([call |-> "cancel_upload", path |-> key[1], tag |-> key[2]])
          /\ Committed([call |-> "delete", path |-> key[1], tag |-> key[2]])
     /\ (/\ last'.op \in {"delete_name", "delete_version", "upload_cancel"}
         /\ last'.out # "ok")
          => UNCHANGED <<name, version, upload, thunks, files>>]_vars

\* the upload was cancelled and its file removed by the backend call that
\* followed, and a delete_version that was refused afterwards has left the
\* file of version 1 in place and no call pending
C18_Witness ==
  /\ last.op = "delete_version" /\ last.out = "Forbidden"
  /\ ~upload[1].present /\ <<ObjPath, upload[1].job>> \notin DOMAIN files
  /\ ~version[1].is_deleted /\ <<ObjPath, version[1].version>> \in DOMAIN files
  /\ thunks = {}

\* the rows of tbl that bind the path
Bound(tbl, path) == {i \in DOMAIN tbl : tbl[i].name = path}

\* C19: a path is bound to at most one name id, a bound path stays bound to
\* that id and a deleted name stays deleted, and a create_name that reaches
\* its end when the row of its path is soft-deleted fails with Conflict and
\* adds no row.
C19_DeletedPathNeverAvailable ==
  [][/\ \A i \in DOMAIN name' : Bound(name', name'[i].name) = {i}
     /\ \A i \in DOMAIN name :
          /\ i \in DOMAIN name' /\ name'[i].name = name[i].name
          /\ name[i].is_deleted => name'[i].is_deleted
     /\ \A tx \in creates :
          (/\ \E i \in Bound(name, tx.path) : name[i].is_deleted
           /\ CreateNameCommit(tx))
            => (last'.out = "Conflict" /\ name' = name)]_vars

\* C20: a create_name whose transaction did not see its path bound, and
\* which reaches its end after a concurrent create_name has bound the path
\* and committed, fails with Conflict, and one live row binds the path.
C20_ConcurrentCreateConflict ==
  [][\A tx \in creates :
       (/\ Bound(tx.snapshot, tx.path) = {}
        /\ \E i \in Bound(name, tx.path) : ~name[i].is_deleted
        /\ CreateNameCommit(tx))
         => /\ last'.out = "Conflict"
            /\ Cardinality({i \in Bound(name', tx.path) : ~name'[i].is_deleted}) = 1]_vars

(***************************************************************************)
(* Properties of creation.                                                 *)
(***************************************************************************)
\* the path and its ancestors below the root
Prefixes(path) == {SubSeq(path, 1, k) : k \in 1..Len(path)}

LiveIn(tbl, path) == name_lookup_in(tbl, path, TRUE) # 0

\* the nearest ancestor of the path that is live: the root at least
NearestAncestor(path) ==
  LET live == {k \in 0..(Len(path) - 1) : LiveIn(name, SubSeq(path, 1, k))}
      k == CHOOSE k \in live : \A j \in live : j <= k
  IN _name_lookup(SubSeq(path, 1, k), TRUE)

\* the names the rows hold
NamesOf(rows) == {rows[i].name : i \in DOMAIN rows}

\* C21: create_name with make_parents either adds the missing ancestors,
\* as namespaces, and the leaf, or fails and adds nothing: with BadRequest
\* for an illegal component, with Conflict below an object, with the denial
\* of the nearest live ancestor; and without make_parents under a missing
\* parent it fails with NotFound and adds nothing.
C21_MakeParentsAllOrNothing ==
  \A path \in CreateRequests, is_object \in BOOLEAN, ctx \in CreateCallers :
    LET made == create_name(name, path, is_object, TRUE, ctx)
        plain == create_name(name, path, is_object, FALSE, ctx)
        missing == {p \in Prefixes(path) : ~LiveIn(name, p)}
        anc == NearestAncestor(path)
        denial == enforce_acl(NameRes(anc), create_name_acl, ctx)
        added == SubSeq(made.tbl, Len(name) + 1, Len(made.tbl))
    IN /\ made.out # "ok" => made.tbl = name
       /\ made.out = "ok" =>
            /\ SubSeq(made.tbl, 1, Len(name)) = name
            /\ NamesOf(added) = missing /\ Len(added) = Cardinality(missing)
            /\ \A i \in DOMAIN added :
                 added[i].subtype = IF added[i].name = path /\ is_object THEN 1 ELSE 0
            /\ \A p \in Prefixes(path) : LiveIn(made.tbl, p)
       /\ Bound(name, path) = {} =>
            /\ (\E k \in DOMAIN path : path[k] \in {".", ".."}) => made.out = "BadRequest"
            /\ (/\ \A k \in DOMAIN path : path[k] \notin {".", ".."}
                /\ name[anc].subtype = 1) => made.out = "Conflict"
            /\ (/\ \A k \in DOMAIN path : path[k] \notin {".", ".."}
                /\ name[anc].subtype = 0 /\ denial # "ok") => made.out = denial
            /\ (/\ path[Len(path)] \notin {".", ".."}
                /\ ~LiveIn(name, SubSeq(path, 1, Len(path) - 1)))
                 => (plain.out = "NotFound" /\ plain.tbl = name)

\* foo, granted create on /a, has created /a/n/m with its parent /a/n, after
\* which a create_name without make_parents below the absent /a/o/x failed
C21_Witness ==
  /\ last.op = "create_name" /\ last.out = "NotFound"
  /\ Len(name) = 5 /\ name[4].name = <<"a", "n">> /\ name[5].name = <<"a", "n", "m">>
  /\ name[4].acl["owner"] = {"foo"}

\* enforce_acl(['owner'], ctx) on a resource whose owner ACL is acl
OwnerCheck(acl, ctx) == enforce_acl([acls |-> [an \in {"owner"} |-> acl]], {"owner"}, ctx)

\* C22: when create_name, create_version, create_version_upload_job or
\* upload_finalize succeeds, each row it has added (the leaf and the
\* ancestors made for it, the version, the upload job) holds the caller's
\* client id in its owner ACL and the caller passes the owner check on it.
C22_CreatorIsOwner ==
  [][last'.out = "ok" =>
       \A ctx \in CreateCallers :
         /\ (/\ last'.op = "create_name"
             /\ \E path \in CreateRequests, is_object \in BOOLEAN, make_parents \in BOOLEAN :
                  CreateName(path, is_object, make_parents, ctx))
              => \A i \in (Len(name) + 1)..Len(name') :
                   /\ ctx.client \in name'[i].acl["owner"]
                   /\ OwnerCheck(name'[i].acl["owner"], ctx) = "ok"
         /\ (/\ last'.op = "create_version"
             /\ \E nbytes \in PutSizes, md \in Metas : PutCreate(ctx, nbytes, md))
              => \A v \in (Len(version) + 1)..Len(version') :
                   /\ ctx.client \in version'[v].owner
                   /\ OwnerCheck(version'[v].owner, ctx) = "ok"
         /\ (/\ last'.op = "create_version_upload_job"
             /\ \E shape \in Shapes, md \in Metas : CreateUpload(ctx, shape[1], shape[2], md))
              => \A u \in (Len(upload) + 1)..Len(upload') :
                   /\ ctx.client \in upload'[u].owner
                   /\ OwnerCheck(upload'[u].owner, ctx) = "ok"
         /\ (/\ last'.op = "upload_finalize"
             /\ \E t \in BagToSet(fins) : t.client = ctx.client /\ FinalizeCommit(t))
              => \A v \in (Len(version) + 1)..Len(version') :
                   /\ ctx.client \in version'[v].owner
                   /\ OwnerCheck(version'[v].owner, ctx) = "ok"]_vars

\* foo has created /a/n/m with its parent and owns both, and has finalized
\* its own upload job into a version it owns
C22_Witness ==
  /\ last.op = "upload_finalize" /\ last.out = "ok"
  /\ version[last.id].owner = {"foo"} /\ ~upload[1].present /\ upload[1].owner = {"foo"}
  /\ Len(name) = 5 /\ name[4].acl["owner"] = {"foo"} /\ name[5].acl["owner"] = {"foo"}

(***************************************************************************)
(* Properties of the chunk shape.                                          *)
(***************************************************************************)
\* nchunks = nbytes / chunksize and remainder = nbytes % chunksize of a job
Nchunks(h) == h.nbytes \div h.chunksize
Remainder(h) == h.nbytes % h.chunksize

IsOwner(h, ctx) == OwnerCheck(h.owner, ctx) = "ok"

\* C23: a chunk of the owner at a position before nchunks - 1 whose byte
\* count is not the chunk size fails with Conflict, and no file changes.
C23_EarlyChunkSize ==
  [][\A h \in handles, ctx \in ChunkCallers, pos \in 0..MaxChunkPosition, input \in ChunkInputs :
       (/\ IsOwner(h, ctx) /\ pos < Nchunks(h) - 1 /\ Len(input) # h.chunksize
        /\ UploadChunk(h, ctx, pos, input, Len(input), NoMeta))
         => (last'.out = "Conflict" /\ UNCHANGED files)]_vars

\* the owner's chunk of three bytes at position 0 of the job of chunk size 2
\* and 5 bytes was refused, after chunks that were stored
C23_Witness ==
  /\ last.op = "upload_chunk_from_file" /\ last.out = "Conflict"
  /\ upload[1].chunksize = 2 /\ upload[1].nbytes = 5
  /\ DOMAIN sent[1] = {1, 2} /\ 0 \notin DOMAIN sent[1]

\* C24: for a job with a remainder, a chunk of the owner at position nchunks
\* whose byte count is not the remainder fails with Conflict, and no file
\* changes.
C24_FinalChunkSize ==
  [][\A h \in handles, ctx \in ChunkCallers, pos \in 0..MaxChunkPosition, input \in ChunkInputs :
       (/\ IsOwner(h, ctx) /\ Remainder(h) > 0 /\ pos = Nchunks(h)
        /\ Len(input) # Remainder(h)
        /\ UploadChunk(h, ctx, pos, input, Len(input), NoMeta))
         => (last'.out = "Conflict" /\ UNCHANGED files)]_vars

\* the positions of the job's shape, and the byte count expected at each
InShape(h, pos) == pos < Nchunks(h) \/ (pos = Nchunks(h) /\ Remainder(h) > 0)
ExpectedSize(h, pos) == IF pos < Nchunks(h) THEN h.chunksize ELSE Remainder(h)

\* C25: a chunk of the owner at a position outside the shape of the job
\* fails with Conflict and no file changes, and a chunk at a position of
\* the shape with the byte count expected there is stored.
C25_ChunkRange ==
  [][\A h \in handles, ctx \in ChunkCallers, pos \in 0..MaxChunkPosition, input \in ChunkInputs :
       (IsOwner(h, ctx) /\ UploadChunk(h, ctx, pos, input, Len(input), NoMeta))
         => /\ ~InShape(h, pos) => (last'.out = "Conflict" /\ UNCHANGED files)
            /\ (InShape(h, pos) /\ Len(input) = ExpectedSize(h, pos))
                 => /\ last'.out = "ok"
                    /\ pos \in DOMAIN sent'[h.id] /\ sent'[h.id][pos] = input
                    /\ SubSeq(files'[<<h.path, h.job>>], pos * h.chunksize + 1,
                              pos * h.chunksize + Len(input)) = input]_vars

\* every chunk of the job of chunk size 2 and 5 bytes is stored with its
\* expected size, and the chunk at position 3 was refused
C25_Witness ==
  /\ last.op = "upload_chunk_from_file" /\ last.out = "Conflict"
  /\ upload[1].chunksize = 2 /\ upload[1].nbytes = 5
  /\ DOMAIN sent[1] = {0, 1, 2}
  /\ sent[1][0] = <<1, 1>> /\ sent[1][1] = <<1, 1>> /\ sent[1][2] = <<1>>
  /\ files[<<ObjPath, upload[1].job>>] = <<1, 1, 1, 1, 1>>

(***************************************************************************)
(* Properties of upload jobs and of reads.                                 *)
(***************************************************************************)
\* C26: while a job's own row exists, its owner's chunks, its
\* finalize_upload and the commit of its upload_finalize succeed whatever
\* the other job does; each commit adds a visible version that carries the
\* job's tag, no two versions share a tag, and every version stays visible.
C26_JobsAreIndependent ==
  [][/\ \A h \in handles, input \in ChunkBodies :
          (upload[h.id].present /\ UploadChunk(h, Root, 0, input, Len(input), NoMeta))
            => last'.out = "ok"
     /\ \A uid \in DOMAIN upload :
          (upload[uid].present /\ FinalizeBegin(uid, Root)) => last'.out = "ok"
     /\ \A t \in BagToSet(fins) :
          (upload[t.uid].present /\ FinalizeCommit(t))
            => /\ last'.out = "ok"
               /\ Len(version') = Len(version) + 1
               /\ version'[Len(version')].version = t.tag
               /\ ~upload'[t.uid].present
     /\ \A v, w \in DOMAIN version' : v # w => version'[v].version # version'[w].version
     /\ \A v \in DOMAIN version' :
          /\ version'[v].version # NoTag /\ ~version'[v].is_deleted
          /\ v \in DOMAIN version => version'[v] = version[v]]_vars

\* both jobs are finalized, the second job first: two visible versions with
\* the tags of the jobs
C26_Witness ==
  /\ last.op = "upload_finalize" /\ last.out = "ok"
  /\ Len(version) = 2 /\ Visible(1) /\ Visible(2)
  /\ version[1].version = upload[2].job /\ version[2].version = upload[1].job
  /\ object_enumerate_versions(ObjPath) = {1, 2}

\* the versions that carry the tag
Tagged(rows, tag) == {v \in DOMAIN rows : rows[v].version = tag}

\* C27: a job whose row exists has no version; when upload_finalize or
\* upload_cancel commits the row is gone for good, with one visible version
\* of the job after a finalize and none after a cancel; from then on
\* upload_resolve of the job fails with NotFound, a finalize of the job
\* fails and adds nothing, and the versions of the job stay as they are.
C27_JobEndsOnce ==
  [][\A u \in DOMAIN upload :
       /\ upload[u].present => Tagged(version, upload[u].job) = {}
       /\ ~upload[u].present =>
            /\ ~upload'[u].present
            /\ Tagged(version', upload[u].job) = Tagged(version, upload[u].job)
            /\ Cardinality(Tagged(version, upload[u].job)) <= 1
            /\ (last'.op = "upload_resolve" /\ UploadResolve(u))
                 => (last'.out = "NotFound" /\ UNCHANGED handles)
            /\ (\E t \in BagToSet(fins) : t.uid = u /\ FinalizeCommit(t))
                 => (last'.out # "ok" /\ UNCHANGED version)
       /\ (/\ last'.op = "upload_cancel" /\ last'.out = "ok"
           /\ \E ctx \in Callers : UploadCancel(u, ctx))
            => (~upload'[u].present /\ Tagged(version', upload[u].job) = {})
       /\ (/\ last'.op = "upload_finalize" /\ last'.out = "ok"
           /\ \E t \in BagToSet(fins) : t.uid = u /\ FinalizeCommit(t))
            => /\ ~upload'[u].present
               /\ Cardinality(Tagged(version', upload[u].job)) = 1
               /\ \A v \in Tagged(version', upload[u].job) : ~version'[v].is_deleted]_vars

\* of two concurrent finalizes of the job the second has failed: the row is
\* gone and one visible version carries the job's tag
C27_Witness ==
  /\ last.op = "upload_finalize" /\ last.out = "Error"
  /\ ~upload[1].present
  /\ \E v \in DOMAIN version : Tagged(version, upload[1].job) = {v} /\ Visible(v)

\* the readers on a version: version_resolve of its tag and get_content
\* through a handle fail with NotFound, and neither get_current_version nor
\* the listing of the object returns it
Unreadable(v) ==
  /\ version_resolve(version[v].nameid, version[v].version) = 0
  /\ \A ctx \in Callers : get_version_content(v, ctx) = "NotFound"
  /\ get_current_version(ObjPath).id # v
  /\ v \notin object_enumerate_versions(ObjPath)

\* C28: the version that delete_version has deleted is unreadable when the
\* delete commits and in every state after it, and it stays deleted with
\* its tag.
C28_DeletedVersionUnreadable ==
  /\ [](/\ (last.op = "delete_version" /\ last.out = "ok")
            => (version[last.id].is_deleted /\ Unreadable(last.id))
        /\ \A v \in DOMAIN version :
             (version[v].is_deleted /\ version[v].version # NoTag)
               => Unreadable(v))
  /\ [][\A v \in DOMAIN version :
          (version[v].is_deleted /\ version[v].version # NoTag)
            => (version'[v].is_deleted /\ version'[v].version = version[v].version)]_vars

\* of two visible versions the newer one has been deleted: the older one is
\* the current version again
C28_Witness ==
  /\ last.op = "delete_version" /\ last.out = "ok" /\ last.id = 2
  /\ Len(version) = 2 /\ Visible(1) /\ version[2].is_deleted /\ version[2].version # NoTag
  /\ get_current_version(ObjPath) = [out |-> "ok", id |-> 1]

(***************************************************************************)
(* Properties of the filesystem backend's reads.                           *)
(***************************************************************************)
RECURSIVE Joined(_)
Joined(buffers) ==
  IF buffers = <<>> THEN <<>> ELSE buffers[1] \o Joined(Tail(buffers))

\* the read of [a, b) of the file at key returns the length b - a and
\* buffers that join to the bytes a+1..b of the file
ReadsRange(key, metadata, get_slice, a, b, bufsize) ==
  LET r == get_content_range(files, key, metadata, get_slice, bufsize)
  IN /\ r.out = "ok"
     /\ r.length = b - a
     /\ Joined(r.buffers) = SubSeq(files[key], a + 1, b)

\* C29: for every stored version, every valid range [a, b) and the whole
\* entity, and every buffer size, get_content_range returns the length b - a
\* and buffers whose concatenation is full_content[a:b].
C29_RangeReadIsSlice ==
  \A v \in DOMAIN version : Visible(v) =>
    LET key == FileKey(version[v].nameid, version[v].version)
        md == from_sql(version[v].metadata)
        nbytes == Len(files[key])
    IN \A bufsize \in BufSizes :
         /\ ReadsRange(key, md, Unset, 0, nbytes, bufsize)
         /\ \A a \in 0..(nbytes - 1), b \in 1..nbytes :
              a < b => ReadsRange(key, md, << <<a>>, <<b>> >>, a, b, bufsize)

(***************************************************************************)
(* Properties of the overlay backend.                                      *)
(***************************************************************************)
\* the lowest index of a sub-backend whose get_content_range does not raise
\* ObjectVersionMissing, 0 when all of them do
FirstAnswering(backends, key, get_slice) ==
  LET hits == {i \in DOMAIN backends :
                 backend_call(backends[i], "get_content_range", key, get_slice).out
                   # "ObjectVersionMissing"}
  IN IF hits = {} THEN 0 ELSE CHOOSE i \in hits : \A j \in hits : i <= j

C31_MissingNeverEscapes ==
  last.op \in {"get_content_range", "delete"} => last.out # "ObjectVersionMissing"

\* C31: a delete through the overlay never raises ObjectVersionMissing to
\* its caller, and a read raises it exactly when every sub-backend raised it
\* for the version, a sub-backend's own exception being handled whenever a
\* later sub-backend answers.
C31_MissingEscapesOnlyWhenNoneAnswers ==
  [][/\ last'.op = "delete" => last'.out # "ObjectVersionMissing"
     /\ last'.op = "get_content_range" =>
          (last'.out = "ObjectVersionMissing"
             <=> \A i \in DOMAIN files :
                   backend_call(files[i], "get_content_range", <<ObjPath, last'.id>>,
                                last'.arg).out = "ObjectVersionMissing")]_vars

\* the primary of two sub-backends raised ObjectVersionMissing and the read
\* was answered by the secondary
C31_Witness ==
  /\ Len(files) = 2
  /\ last.op = "get_content_range" /\ last.out = "ok" /\ last.ret = <<2>>
  /\ last.calls = << <<1, "get_content_range">>, <<2, "get_content_range">> >>

(***************************************************************************)
(* Properties of failure, of reloading and of interleavings.               *)
(***************************************************************************)
\* the row of a version that no reader is handed
Tombstone(row) == row.version = NoTag /\ row.is_deleted

\* C32: create_version adds one invisible row and changes nothing else that
\* a reader sees; a PUT that fails after it (backend error, short body,
\* checksum mismatch) surfaces the error, ends the request and changes no
\* row; and a row without a tag changes only by the complete_version of its
\* own PUT, so the row of a failed or abandoned PUT stays a tombstone.
C32_FailedPutLeavesTombstone ==
  [][/\ (last'.op = "create_version" /\ last'.out = "ok" /\ Len(version') > Len(version))
          => /\ SubSeq(version', 1, Len(version)) = version
             /\ Len(version') = Len(version) + 1
             /\ Tombstone(version'[Len(version')])
             /\ name' = name /\ upload' = upload
             /\ get_current_version(ObjPath)' = get_current_version(ObjPath)
             /\ object_enumerate_versions(ObjPath)' = object_enumerate_versions(ObjPath)
     /\ \A p \in puts :
          (p \notin puts' /\ p.pc \in {"created", "stored"}
             /\ ~(\E q \in puts' : q.vid = p.vid))
            => /\ last'.op \in {"create_from_file", "complete_version"}
               /\ last'.out # "ok" /\ last'.id = p.vid
               /\ Tombstone(version'[p.vid])
               /\ version' = version /\ name' = name /\ upload' = upload
     /\ \A v \in DOMAIN version :
          (Tombstone(version[v]) /\ version'[v] # version[v])
            => /\ last'.op = "complete_version" /\ last'.out = "ok" /\ last'.id = v
               /\ \E p \in puts : p.vid = v /\ p.pc = "stored"]_vars

\* a PUT has failed on a short body next to a version stored before: its row
\* is a tombstone, no request holds it, and the earlier version is current
C32_Witness ==
  /\ last.op = "create_from_file" /\ last.out = "BadRequest" /\ last.id = 2
  /\ Tombstone(version[2]) /\ ~(\E p \in puts : p.vid = 2)
  /\ Visible(1) /\ get_current_version(ObjPath) = [out |-> "ok", id |-> 1]

\* C33: an operation acts only on a target that resolves when it runs: a
\* chunk is accepted only for an upload job that a reload still finds, and a
\* version is completed only under an object name that still resolves.
C33_StaleHandleNeverActs ==
  [][/\ (last'.op = "upload_chunk_from_file" /\ last'.out = "ok")
          => ReloadUpload(last'.id) # 0
     /\ (last'.op = "complete_version" /\ last'.out = "ok")
          => _name_lookup(name[version[last'.id].nameid].name, TRUE) # 0]_vars

\* C34: no visible version (tag set, not deleted) belongs to an object name
\* that has been deleted.
C34_NoVisibleVersionUnderDeletedName ==
  \A v \in DOMAIN version : Visible(v) => ~name[version[v].nameid].is_deleted

\* C35: every live name other than the root has live ancestors only, and its
\* parent is a live namespace.
C35_LiveNamesHaveLiveAncestors ==
  \A n \in DOMAIN name :
    (~name[n].is_deleted /\ name[n].name # RootPath)
      => /\ \A a \in Range(name[n].ancestors) : ~name[a].is_deleted
         /\ name[n].pid \in DOMAIN name
         /\ ~name[name[n].pid].is_deleted /\ name[name[n].pid].subtype = 0

\* C36: the anonymous caller passes enforce_acl on a name or a version only
\* when the union of the listed ACLs holds "*".
C36_AnonymousNeedsStar ==
  \A res \in AllRes, accesses \in AccessLists :
    enforce_acl(res, accesses, Anon) = "ok" => Star \in ListedAcl(res, accesses)

\* C37: the file of every visible version holds as many bytes as the nbytes
\* of its row.
C37_StoredLengthMatchesRow ==
  \A v \in DOMAIN version :
    LET key == FileKey(version[v].nameid, version[v].version)
    IN (Visible(v) /\ key \in DOMAIN files) => Len(files[key]) = version[v].nbytes

\* C38: delete_version succeeds only on a version that is visible when it
\* runs (a repeated one fails), and every delete call that reaches the
\* backend finds the file of its version: none is made a second time.
C38_BackendDeleteAtMostOnce ==
  [][/\ (last'.op = "delete_version" /\ last'.out = "ok") => Visible(last'.id)
     /\ last'.op = "delete" => last'.out = "ok"]_vars

\* the version rows that carry the tag
WithTag(rows, tag) == {w \in DOMAIN rows : rows[w].version = tag}

\* the upload rows that the step deletes
EndedJobs == {u \in DOMAIN upload : upload[u].present /\ ~upload'[u].present}

\* C39: of upload_finalize, upload_cancel and delete_name on one upload job
\* at most one commits: a finalize commits only on a job that is still
\* there, a cancel or a delete_name ends only jobs that no finalize has made
\* a version of, and the backend's cancel_upload is never called for a job
\* whose tag a version carries.
C39_FinalizeExcludesCancel ==
  [][/\ (last'.op = "upload_finalize" /\ last'.out = "ok")
          => /\ Cardinality(EndedJobs) = 1
             /\ \A u \in EndedJobs :
                  /\ upload[u].job = version'[last'.id].version
                  /\ WithTag(version, upload[u].job) = {}
                  /\ \A t \in thunks' : \A i \in DOMAIN t :
                       ~(t[i].call = "cancel_upload" /\ t[i].tag = upload[u].job)
     /\ (last'.op \in {"upload_cancel", "delete_name"} /\ last'.out = "ok")
          => \A u \in EndedJobs : WithTag(version', upload[u].job) = {}
     /\ (last'.op = "upload_cancel" /\ last'.out = "ok") => EndedJobs = {last'.id}
     /\ last'.op = "cancel_upload" => WithTag(version, last'.id) = {}]_vars

\* the finalize of a job has committed and a cancel of the same job has
\* failed after it: the version is visible, its file is in the backend and
\* no backend call is pending
C39_Witness ==
  /\ last.op = "upload_cancel" /\ last.out = "NotFound"
  /\ ~upload[last.id].present /\ thunks = {}
  /\ \E w \in WithTag(version, upload[last.id].job) :
       Visible(w) /\ FileKey(version[w].nameid, version[w].version) \in DOMAIN files

\* the caller is on none of the listed ACLs of the resource
Refused(res, accesses, ctx) ==
  LET acl == ListedAcl(res, accesses)
  IN Star \notin acl /\ ctx.client \notin acl /\ acl \cap ctx.attributes = {}

\* the backend's files, and the backend calls a request has still to make
BackendTouched == <<files, puts, fins, thunks, issued>>' # <<files, puts, fins, thunks, issued>>

\* C40: authorization precedes every backend side effect: a step of
\* create_version_from_file, create_version_upload_job, upload_chunk_from_file,
\* upload_finalize, upload_cancel, delete_version or delete_name that is taken
\* for a caller who is on none of the ACLs the operation lists changes no
\* file of the backend and leaves no backend call to be made (no pending
\* create_from_file, finalize_upload, cancel_upload or delete); and the files
\* change only in the backend calls of those operations
C40_RefusedCallerTouchesNoBackend ==
  [][/\ BackendTouched =>
          \A ctx \in AuthCallers :
            LET oid == _name_lookup(ObjPath, TRUE)
            IN /\ ~(/\ oid # 0
                    /\ Refused(NameRes(oid), {"owner", "update", "ancestor_owner", "ancestor_update"}, ctx)
                    /\ (PutCreate(ctx, 1, NoMeta) \/ CreateUpload(ctx, 1, 1, NoMeta)))
               /\ \A h \in handles :
                    ~(/\ Refused([acls |-> [an \in {"owner"} |-> h.owner]], {"owner"}, ctx)
                      /\ UploadChunk(h, ctx, 0, <<1>>, 1, NoMeta))
               /\ \A uid \in DOMAIN upload :
                    LET u == ReloadUpload(uid)
                    IN /\ ~(/\ u # 0
                            /\ Refused(UploadRes(u), {"owner"}, ctx)
                            /\ FinalizeBegin(uid, ctx))
                       /\ ~(/\ u # 0
                            /\ Refused(UploadRes(u), {"owner", "ancestor_owner"}, ctx)
                            /\ UploadCancel(uid, ctx))
               /\ \A vid \in DOMAIN version :
                    LET v == IF oid = 0 THEN 0 ELSE _version_lookup(oid, version[vid].version, TRUE)
                    IN ~(/\ v # 0
                         /\ Refused(VersionRes(v), {"owner", "ancestor_owner"}, ctx)
                         /\ DeleteVersion(vid, ctx))
               /\ ~(/\ oid # 0
                    /\ Refused(NameRes(oid), {"owner", "ancestor_owner"}, ctx)
                    /\ DeleteName(ObjPath, ctx))
     /\ last'.out \in {"Forbidden", "Unauthenticated"} => ~BackendTouched
     /\ files' # files =>
          last'.op \in {"create_from_file", "create_version_upload_job",
                        "upload_chunk_from_file", "cancel_upload", "delete"}]_vars

\* foo, granted update but not owner on /a/o, has stored a version and is
\* refused the deletion of the object: the file stays and no call is queued
C40_Witness ==
  /\ last.op = "delete_name" /\ last.out = "Forbidden"
  /\ thunks = {}
  /\ \E v \in DOMAIN version :
       Visible(v) /\ FileKey(version[v].nameid, version[v].version) \in DOMAIN files

====
